---- MODULE Spec2Model ----
(***************************************************************************)
(* Alethe proof checker: the linear-arithmetic rules (la_generic,          *)
(* la_tautology, la_rw_eq, la_disequality) over raw rationals and          *)
(* LinearComb, and the resolution rule of the checking engine.             *)
(***************************************************************************)
EXTENDS Integers, Sequences, FiniteSets, TLC

VARIABLES rule, conclusion, args, premises, pc, idx, acc_op, acc, result,
          lc, nops, encountered,
          proof, invoked, cvc5, stages, error, elaborator, warnings, ops

vars == <<rule, conclusion, args, premises, pc, idx, acc_op, acc, result,
          lc, nops, encountered,
          proof, invoked, cvc5, stages, error, elaborator, warnings, ops>>

\* the state of the engine walk, of the cvc5 bridge and of the operator fold
other_vars == <<proof, invoked, cvc5, stages, error, elaborator, warnings, ops>>

\* nothing walked, no solver run, no elaborator
OtherIdle ==
    /\ proof = <<>> /\ invoked = <<>>
    /\ cvc5 = <<>> /\ stages = <<>> /\ error = "none"
    /\ elaborator = <<>> /\ warnings = 0
    /\ ops = <<>>

(***************************************************************************)
(* Bounds of the model.                                                    *)
(***************************************************************************)
MaxClauseLen == 2
MaxOps == 3
MaxAssign == 2
MaxPremises == 2

(***************************************************************************)
(* BigRational, unreduced: <<numer, denom>> with denom > 0.                *)
(***************************************************************************)
numer(r) == r[1]
denom(r) == r[2]

Abs(i) == IF i < 0 THEN -i ELSE i

\* BigInt division truncates toward zero
TruncDiv(a, b) == IF a >= 0 THEN a \div b ELSE -((-a) \div b)

RECURSIVE gcd(_, _)
gcd(a, b) == IF b = 0 THEN a ELSE gcd(b, a % b)

rzero == <<0, 1>>
rone == <<1, 1>>

raw_add(a, b) == <<numer(a) * denom(b) + numer(b) * denom(a), denom(a) * denom(b)>>
raw_mul(a, b) == <<numer(a) * numer(b), denom(a) * denom(b)>>
rneg(a) == <<-numer(a), denom(a)>>
is_zero(a) == numer(a) = 0
is_one(a) == numer(a) = denom(a)
is_integer(a) == denom(a) = 1
is_multiple_of(a, b) == IF b = 0 THEN a = 0 ELSE a % b = 0
is_positive(a) == numer(a) > 0
is_negative(a) == numer(a) < 0
rabs(a) == IF is_negative(a) THEN rneg(a) ELSE a
to_integer(a) == TruncDiv(numer(a), denom(a))
floor(a) ==
    IF numer(a) < 0
    THEN <<TruncDiv(numer(a) - denom(a) + 1, denom(a)), 1>>
    ELSE <<TruncDiv(numer(a), denom(a)), 1>>
from_integer(i) == <<i, 1>>
\* Ordering of 0 against r, as std::cmp::Ordering
cmp_zero(r) ==
    IF 0 < numer(r) THEN "Less" ELSE IF 0 = numer(r) THEN "Equal" ELSE "Greater"
\* a < b and a <= b by value
rlt(a, b) == numer(a) * denom(b) < numer(b) * denom(a)
rle(a, b) == numer(a) * denom(b) <= numer(b) * denom(a)

(***************************************************************************)
(* Terms.  Every term is a record of the same shape, so that terms of      *)
(* different kinds can be compared.                                        *)
(***************************************************************************)
NoArgs == <<>>
Var(v) == [kind |-> "Var", name |-> v, args |-> NoArgs, num |-> rzero]
Integer(i) == [kind |-> "Integer", name |-> "", args |-> NoArgs, num |-> <<i, 1>>]
Real(n, d) == [kind |-> "Real", name |-> "", args |-> NoArgs, num |-> <<n, d>>]
Op(o, as) == [kind |-> "Op", name |-> o, args |-> as, num |-> rzero]

IsOp(t, o) == t.kind = "Op" /\ t.name = o

Not(t) == Op("Not", <<t>>)
Minus(t) == Op("Sub", <<t>>)

remove_negation(t) ==
    IF IsOp(t, "Not") /\ Len(t.args) = 1
    THEN [some |-> TRUE, term |-> t.args[1]]
    ELSE [some |-> FALSE, term |-> t]

as_number(t) ==
    IF t.kind \in {"Integer", "Real"}
    THEN [some |-> TRUE, val |-> t.num]
    ELSE [some |-> FALSE, val |-> rzero]

as_signed_number(t) ==
    IF IsOp(t, "Sub") /\ Len(t.args) = 1 /\ as_number(t.args[1]).some
    THEN [some |-> TRUE, val |-> rneg(as_number(t.args[1]).val)]
    ELSE as_number(t)

as_fraction(t) == as_signed_number(t)

(***************************************************************************)
(* LinearComb: [map |-> coefficient of each key, constant |-> rational]    *)
(***************************************************************************)
EmptyMap == [k \in {} |-> rzero]

new == [map |-> EmptyMap, constant |-> rzero]

insert(self, key, value) ==
    IF key \in DOMAIN self.map
    THEN LET new_value == raw_add(self.map[key], value) IN
         IF is_zero(new_value)
         THEN [self EXCEPT !.map = [k \in (DOMAIN self.map) \ {key} |-> self.map[k]]]
         ELSE [self EXCEPT !.map = [self.map EXCEPT ![key] = new_value]]
    ELSE [self EXCEPT !.map = [k \in (DOMAIN self.map) \cup {key} |->
                                  IF k = key THEN value ELSE self.map[k]]]

RECURSIVE add_term(_, _, _)
RECURSIVE add_terms(_, _, _, _)
\* add_term applied to args[i..] in order, each with coefficient coeff
add_terms(self, as, i, coeff) ==
    IF i > Len(as) THEN self
    ELSE add_terms(add_term(self, as[i], coeff), as, i + 1, coeff)

add_term(self, term, coeff) ==
    IF IsOp(term, "Add") THEN add_terms(self, term.args, 1, coeff)
    ELSE IF IsOp(term, "Sub") /\ Len(term.args) = 1
        THEN add_term(self, term.args[1], rneg(coeff))
    ELSE IF IsOp(term, "Sub")
        THEN add_terms(add_term(self, term.args[1], coeff), term.args, 2, rneg(coeff))
    ELSE IF IsOp(term, "Mult") /\ Len(term.args) = 2
        THEN LET f0 == as_fraction(term.args[1])
                 f1 == as_fraction(term.args[2])
             IN  IF ~f0.some /\ f1.some
                     THEN add_term(self, term.args[1], raw_mul(coeff, f1.val))
                 ELSE IF f0.some
                     THEN add_term(self, term.args[2], raw_mul(coeff, f0.val))
                 ELSE insert(self, term, coeff)
    ELSE LET r == as_fraction(term) IN
         IF r.some
         THEN [self EXCEPT !.constant = raw_add(self.constant, raw_mul(coeff, r.val))]
         ELSE insert(self, term, coeff)

from_term(term) == add_term(new, term, rone)

RECURSIVE insert_all(_, _, _)
insert_all(self, m, keys) ==
    IF keys = {} THEN self
    ELSE LET k == CHOOSE x \in keys : TRUE
         IN  insert_all(insert(self, k, m[k]), m, keys \ {k})

add(self, other) ==
    [insert_all(self, other.map, DOMAIN other.map)
        EXCEPT !.constant = raw_add(self.constant, other.constant)]

mul(self, scalar) ==
    IF is_zero(scalar) THEN [map |-> EmptyMap, constant |-> rzero]
    ELSE IF is_one(scalar) THEN self
    ELSE [map |-> [k \in DOMAIN self.map |-> raw_mul(self.map[k], scalar)],
          constant |-> raw_mul(self.constant, scalar)]

neg(self) ==
    [map |-> [k \in DOMAIN self.map |-> rneg(self.map[k])],
     constant |-> rneg(self.constant)]

sub(self, other) == add(self, neg(other))

RECURSIVE gcd_all(_, _, _)
gcd_all(m, keys, res) ==
    IF keys = {} THEN res
    ELSE LET k == CHOOSE x \in keys : TRUE
         IN  gcd_all(m, keys \ {k}, gcd(Abs(to_integer(m[k])), res))

gcd_is_integer(r) == is_integer(r)

\* Option<BigInt>: [some, val]
coefficients_gcd(self) ==
    IF ~gcd_is_integer(self.constant) THEN [some |-> FALSE, val |-> 0]
    ELSE IF \E k \in DOMAIN self.map : ~gcd_is_integer(self.map[k])
        THEN [some |-> FALSE, val |-> 0]
    ELSE LET result0 == gcd_all(self.map, DOMAIN self.map, Abs(to_integer(self.constant)))
         IN  [some |-> TRUE, val |-> IF result0 > 1 THEN result0 ELSE 1]

(***************************************************************************)
(* negate_disequality                                                      *)
(***************************************************************************)
RelOps == {"GreaterEq", "LessEq", "GreaterThan", "LessThan", "Equals"}

\* the relation is mirrored, not negated
negate_operator_mirrored(op) ==
    CASE op = "LessThan" -> "GreaterThan"
      [] op = "GreaterThan" -> "LessThan"
      [] op = "LessEq" -> "GreaterEq"
      [] op = "GreaterEq" -> "LessEq"
      [] OTHER -> "None"

\* Option<Operator>: "None" when the operator has no negation
negate_operator(op) ==
    CASE op = "LessThan" -> "GreaterEq"
      [] op = "GreaterThan" -> "LessEq"
      [] op = "LessEq" -> "GreaterThan"
      [] op = "GreaterEq" -> "LessThan"
      [] OTHER -> "None"

\* Option<(Operator, args)>
inner(term) ==
    LET rn == remove_negation(term) IN
    IF rn.some /\ rn.term.kind = "Op"
    THEN IF rn.term.name \in RelOps
         THEN [some |-> TRUE, op |-> rn.term.name, args |-> rn.term.args]
         ELSE [some |-> FALSE, op |-> "None", args |-> NoArgs]
    ELSE IF term.kind = "Op" /\ negate_operator(term.name) # "None"
         THEN [some |-> TRUE, op |-> negate_operator(term.name), args |-> term.args]
         ELSE [some |-> FALSE, op |-> "None", args |-> NoArgs]

\* Result<(Operator, LinearComb, LinearComb), CheckerError>
negate_disequality(term) ==
    LET i == inner(term) IN
    IF ~i.some
    THEN [err |-> "InvalidDisequalityOp", op |-> "None", s1 |-> new, s2 |-> new]
    ELSE IF Len(i.args) = 2
    THEN [err |-> "", op |-> i.op,
          s1 |-> from_term(i.args[1]), s2 |-> from_term(i.args[2])]
    ELSE [err |-> "TooManyArgsInDisequality", op |-> "None", s1 |-> new, s2 |-> new]

(***************************************************************************)
(* strengthen                                                              *)
(***************************************************************************)
strengthen_is_integer(disequality, a) ==
    IF is_zero(a) THEN TRUE
    ELSE IF is_one(a) THEN is_integer(disequality.constant)
    ELSE LET constant == raw_mul(disequality.constant, a)
         IN  is_multiple_of(numer(constant), denom(constant))

strengthen_increment(disequality) ==
    LET g == coefficients_gcd(disequality) IN IF g.some THEN g.val ELSE 1

\* strengthen whose strict integer case adds 1 in place of the coefficients' GCD
strengthen_plus_one(op, disequality, a) ==
    LET is_int == strengthen_is_integer(disequality, a) IN
    IF op = "GreaterEq" /\ is_int
        THEN [op |-> op, d |-> disequality]
    ELSE IF op \in {"GreaterThan", "GreaterEq"}
        THEN [op |-> "GreaterEq",
              d |-> [disequality EXCEPT !.constant =
                        from_integer(numer(floor(disequality.constant)) + 1)]]
    ELSE IF op \in {"LessThan", "LessEq"}
        THEN [op |-> "unreachable", d |-> disequality]
    ELSE [op |-> op, d |-> disequality]

\* returns the new operator and the updated disequality
strengthen(op, disequality, a) ==
    LET is_int == strengthen_is_integer(disequality, a) IN
    IF op = "GreaterEq" /\ is_int
        THEN [op |-> op, d |-> disequality]
    ELSE IF op = "GreaterThan" /\ is_int
        THEN [op |-> "GreaterEq",
              d |-> [disequality EXCEPT !.constant =
                        from_integer(numer(floor(disequality.constant))
                                     + strengthen_increment(disequality))]]
    ELSE IF op \in {"GreaterThan", "GreaterEq"}
        THEN [op |-> "GreaterEq",
              d |-> [disequality EXCEPT !.constant =
                        from_integer(numer(floor(disequality.constant)) + 1)]]
    ELSE IF op \in {"LessThan", "LessEq"}
        THEN [op |-> "unreachable", d |-> disequality]
    ELSE [op |-> op, d |-> disequality]

(***************************************************************************)
(* la_generic                                                              *)
(***************************************************************************)
\* ProofArg::Term(t) or ProofArg::Assign(name, t)
TermArg(t) == [assign |-> FALSE, term |-> t]
AssignArg(t) == [assign |-> TRUE, term |-> t]

\* Steps 1 to 3: negate, move the non-constant terms left, flip < and <=
move_and_flip(n) ==
    LET moved == sub(n.s1, n.s2)
        d0 == [moved EXCEPT !.constant = rneg(moved.constant)]
    IN  IF n.op = "LessThan" THEN [op |-> "GreaterThan", d |-> neg(d0)]
        ELSE IF n.op = "LessEq" THEN [op |-> "GreaterEq", d |-> neg(d0)]
        ELSE [op |-> n.op, d |-> d0]

\* Step 5: multiply the strengthened disequality s by |a|, or by a under Equals
scale(s, a) ==
    [op |-> s.op, d |-> mul(s.d, IF s.op = "Equals" THEN a ELSE rabs(a))]

\* Steps 3 to 5 for one negated disequality and its argument a
strengthen_and_scale(n, a) ==
    LET f == move_and_flip(n) IN scale(strengthen(f.op, f.d, a), a)

\* a strict summand overrides an accumulator that is already >=
accumulate_op_strict_wins(acc_op0, op) ==
    IF op = "GreaterEq" THEN "GreaterEq"
    ELSE IF op = "GreaterThan" THEN "GreaterThan"
    ELSE acc_op0

accumulate_op(acc_op0, op) ==
    IF op = "GreaterEq" THEN "GreaterEq"
    ELSE IF acc_op0 = "Equals" /\ op = "GreaterThan" THEN "GreaterThan"
    ELSE acc_op0

\* the Equal case forgets that 0 >= 0 holds
is_disequality_true_strict(op, right_side) ==
    CASE cmp_zero(right_side) = "Less" -> op \in {"LessThan", "LessEq"}
      [] cmp_zero(right_side) = "Equal" -> op \in {"LessEq", "Equals"}
      [] cmp_zero(right_side) = "Greater" -> op \in {"GreaterThan", "GreaterEq"}

is_disequality_true(op, right_side) ==
    CASE cmp_zero(right_side) = "Less" -> op \in {"LessThan", "LessEq"}
      [] cmp_zero(right_side) = "Equal" -> op \in {"LessEq", "GreaterEq", "Equals"}
      [] cmp_zero(right_side) = "Greater" -> op \in {"GreaterThan", "GreaterEq"}

\* the check forgets to require an empty left side
contradiction_any_left_side(op, left_side, right_side) ==
    ~is_disequality_true(op, right_side)

contradiction(op, left_side, right_side) ==
    left_side = EmptyMap /\ ~is_disequality_true(op, right_side)

\* index of the first argument that is not a number, 0 when all are
RECURSIVE first_bad_arg(_, _)
first_bad_arg(as, i) ==
    IF i > Len(as) THEN 0
    ELSE IF as[i].assign \/ ~as_fraction(as[i].term).some THEN i
    ELSE first_bad_arg(as, i + 1)

arg_value(i) == as_fraction(args[i].term).val

LaGenericArgs ==
    /\ rule = "la_generic" /\ pc = "start"
    /\ IF Len(args) # Len(conclusion)
       THEN /\ result' = "WrongNumberOfArgs" /\ pc' = "done"
       ELSE LET b == first_bad_arg(args, 1) IN
            IF b # 0
            THEN /\ result' = (IF args[b].assign THEN "ExpectedTermStyleArg"
                                                 ELSE "ExpectedAnyNumber")
                 /\ pc' = "done"
            ELSE /\ pc' = "fold" /\ UNCHANGED result
    /\ UNCHANGED <<other_vars, rule, conclusion, args, premises, idx, acc_op, acc,
                   lc, nops, encountered>>

LaGenericItem ==
    /\ rule = "la_generic" /\ pc = "fold" /\ idx <= Len(conclusion)
    /\ LET n == negate_disequality(conclusion[idx]) IN
       IF n.err # ""
       THEN /\ result' = n.err /\ pc' = "done"
            /\ UNCHANGED <<idx, acc_op, acc>>
       ELSE LET item == strengthen_and_scale(n, arg_value(idx)) IN
            /\ acc' = add(acc, item.d)
            /\ acc_op' = accumulate_op(acc_op, item.op)
            /\ idx' = idx + 1
            /\ UNCHANGED <<result, pc>>
    /\ UNCHANGED <<other_vars, rule, conclusion, args, premises, lc, nops, encountered>>

LaGenericCheck ==
    /\ rule = "la_generic" /\ pc = "fold" /\ idx > Len(conclusion)
    /\ result' = (IF contradiction(acc_op, acc.map, acc.constant)
                  THEN "Ok" ELSE "DisequalityIsNotContradiction")
    /\ pc' = "done"
    /\ UNCHANGED <<other_vars, rule, conclusion, args, premises, idx, acc_op, acc,
                   lc, nops, encountered>>

(***************************************************************************)
(* Inputs of la_generic                                                    *)
(***************************************************************************)
var_n == Var("n")
var_m == Var("m")

LeftSides == {var_n, Op("Mult", <<Integer(2), var_n>>)}
RightSides == {Integer(1), Op("Mult", <<Integer(2), Real(1, 2)>>)}

Disequalities ==
    UNION {{Not(Op("GreaterEq", <<l, r>>)), Not(Op("LessEq", <<l, r>>)),
            Op("LessEq", <<l, r>>), Not(Op("Equals", <<l, r>>))}
           : <<l, r>> \in LeftSides \X RightSides}

NotDisequalities ==
    {Op("Equals", <<var_n, Integer(1)>>),
     Op("Ite", <<Op("Equals", <<var_n, var_m>>), Var("false"), Var("true")>>)}

Atoms == Disequalities \cup NotDisequalities

ArgTerms == {Integer(1), Integer(2), Real(1, 2), Minus(Integer(1))}

SeqsUpTo(S, k) == UNION {[1..j -> S] : j \in 0..k}

\* The step of the test "Edge case where the strengthening rules need to be stronger"
EdgeClause ==
    <<Not(Op("LessEq", <<Minus(Integer(1)), var_n>>)),
      Not(Op("LessEq", <<Minus(Integer(1)), Op("Add", <<var_n, var_m>>)>>)),
      Op("LessEq", <<Minus(Integer(2)), Op("Mult", <<Integer(2), var_n>>)>>),
      Not(Op("LessEq", <<var_m, Integer(1)>>))>>

\* Argument lists that la_generic refuses before looking at the clause
BadArgs(c) ==
    {[i \in 1..(Len(c) + 1) |-> TermArg(Integer(1))]}
    \cup (IF Len(c) = 0 THEN {}
          ELSE {[i \in 1..Len(c) |-> IF i = Len(c) THEN TermArg(Var("b"))
                                     ELSE TermArg(Integer(1))],
                [i \in 1..Len(c) |-> IF i = 1 THEN AssignArg(Integer(1))
                                     ELSE TermArg(Integer(1))]})

Idle ==
    /\ premises = <<>> /\ lc = new /\ nops = 0
    /\ encountered = EmptyMap

InitLaGeneric ==
    /\ OtherIdle
    /\ rule = "la_generic"
    /\ \/ /\ conclusion \in SeqsUpTo(Atoms, MaxClauseLen)
          /\ \/ args \in [1..Len(conclusion) -> {TermArg(t) : t \in ArgTerms}]
             \/ args \in BadArgs(conclusion)
       \/ /\ conclusion = EdgeClause
          /\ args \in [1..4 -> {TermArg(t) : t \in ArgTerms}]
    /\ pc = "start" /\ idx = 1 /\ acc_op = "Equals" /\ acc = new
    /\ result = "none"
    /\ Idle

NextLaGeneric == LaGenericArgs \/ LaGenericItem \/ LaGenericCheck

SpecLaGeneric == InitLaGeneric /\ [][NextLaGeneric]_vars

(***************************************************************************)
(* Properties of la_generic                                                *)
(***************************************************************************)
\* The relation `0 op c` between rationals, by value
ZeroRel(op, c) ==
    CASE op = "GreaterEq" -> rle(c, rzero)
      [] op = "GreaterThan" -> rlt(c, rzero)
      [] op = "Equals" -> ~rlt(c, rzero) /\ ~rlt(rzero, c)
      [] op = "LessThan" -> rlt(rzero, c)
      [] op = "LessEq" -> rle(rzero, c)
      [] OTHER -> FALSE

\* la_generic summed every disequality and ran the contradiction check
LaGenericChecked ==
    /\ rule = "la_generic" /\ pc = "done"
    /\ result \in {"Ok", "DisequalityIsNotContradiction"}

\* C1: la_generic accepts exactly when, after all disequalities are summed,
\* the coefficient map is empty and `0 final_op final_constant` is false; a
\* remaining non-constant term always rejects the step.
C1_AcceptIffContradiction ==
    /\ (rule = "la_generic" /\ result = "Ok") =>
          /\ LaGenericChecked
          /\ Len(args) = Len(conclusion) /\ idx = Len(conclusion) + 1
    /\ LaGenericChecked =>
          /\ result = "Ok" <=>
                (DOMAIN acc.map = {} /\ ~ZeroRel(acc_op, acc.constant))
          /\ DOMAIN acc.map # {} => result = "DisequalityIsNotContradiction"

C1_Witness ==
    /\ LaGenericChecked /\ result = "Ok" /\ Len(conclusion) = 2
    /\ \A i \in 1..2 : inner(conclusion[i]).args[1] # inner(conclusion[i]).args[2]
    /\ DOMAIN from_term(inner(conclusion[1]).args[1]).map # {}

C1_WitnessResidual ==
    /\ LaGenericChecked /\ DOMAIN acc.map # {} /\ Len(conclusion) = 2

\* C2 as stated: with an empty map, acceptance needs a strictly negative
\* constant under >=, a constant <= 0 under >, a non-zero constant under =.
StatedCondition(op, c) ==
    CASE op = "GreaterEq" -> rlt(c, rzero)
      [] op = "GreaterThan" -> rle(c, rzero)
      [] op = "Equals" -> ~is_zero(c)
      [] OTHER -> FALSE

C2_Stated ==
    (LaGenericChecked /\ DOMAIN acc.map = {}) =>
        (result = "Ok" <=> StatedCondition(acc_op, acc.constant))

\* C2 (amended): with an empty map, the step is accepted exactly when the
\* constant is strictly positive under >=, greater than or equal to 0 under >,
\* and non-zero under =.
AcceptCondition(op, c) ==
    CASE op = "GreaterEq" -> rlt(rzero, c)
      [] op = "GreaterThan" -> rle(rzero, c)
      [] op = "Equals" -> ~is_zero(c)
      [] OTHER -> FALSE

C2_PerOperator ==
    (LaGenericChecked /\ DOMAIN acc.map = {}) =>
        /\ result = "Ok" <=> AcceptCondition(acc_op, acc.constant)
        /\ \A op \in {"GreaterEq", "GreaterThan", "Equals"} :
              contradiction(op, EmptyMap, acc.constant)
                  <=> AcceptCondition(op, acc.constant)

C2_Witness ==
    /\ LaGenericChecked /\ DOMAIN acc.map = {} /\ Len(conclusion) = 2
    /\ acc_op = "GreaterEq" /\ is_positive(acc.constant) /\ result = "Ok"

C2_WitnessZero ==
    /\ LaGenericChecked /\ DOMAIN acc.map = {} /\ Len(conclusion) = 2
    /\ acc_op = "GreaterEq" /\ is_zero(acc.constant)

C2_WitnessEquals ==
    /\ LaGenericChecked /\ DOMAIN acc.map = {} /\ Len(conclusion) = 2
    /\ acc_op = "Equals" /\ is_negative(acc.constant) /\ result = "Ok"

\* Integer semantics of terms and disequalities
RECURSIVE IntTerm(_)
IntTerm(t) ==
    \/ t.kind \in {"Var", "Integer"}
    \/ /\ t.kind = "Op" /\ t.name \in {"Add", "Sub", "Mult"} /\ Len(t.args) >= 1
       /\ \A i \in 1..Len(t.args) : IntTerm(t.args[i])
       /\ t.name = "Mult" => Len(t.args) = 2

RECURSIVE EvalInt(_, _)
RECURSIVE EvalSum(_, _, _)
EvalSum(as, i, env) ==
    IF i > Len(as) THEN 0 ELSE EvalInt(as[i], env) + EvalSum(as, i + 1, env)

EvalInt(t, env) ==
    IF t.kind = "Var" THEN env[t.name]
    ELSE IF t.kind = "Integer" THEN numer(t.num)
    ELSE IF t.name = "Add" THEN EvalSum(t.args, 1, env)
    ELSE IF t.name = "Sub" /\ Len(t.args) = 1 THEN -EvalInt(t.args[1], env)
    ELSE IF t.name = "Sub" THEN EvalInt(t.args[1], env) - EvalSum(t.args, 2, env)
    ELSE EvalInt(t.args[1], env) * EvalInt(t.args[2], env)

RelHolds(op, a, b) ==
    CASE op = "GreaterEq" -> a >= b
      [] op = "GreaterThan" -> a > b
      [] op = "LessEq" -> a <= b
      [] op = "LessThan" -> a < b
      [] op = "Equals" -> a = b

IntegerRelation(t) ==
    /\ t.kind = "Op" /\ t.name \in RelOps /\ Len(t.args) = 2
    /\ IntTerm(t.args[1]) /\ IntTerm(t.args[2])

IntegerDisequality(phi) ==
    IF IsOp(phi, "Not") THEN IntegerRelation(phi.args[1]) ELSE IntegerRelation(phi)

Truth(phi, env) ==
    IF IsOp(phi, "Not")
    THEN ~RelHolds(phi.args[1].name, EvalInt(phi.args[1].args[1], env),
                   EvalInt(phi.args[1].args[2], env))
    ELSE RelHolds(phi.name, EvalInt(phi.args[1], env), EvalInt(phi.args[2], env))

Assignments == [{"n", "m"} -> (-MaxAssign)..MaxAssign]

IntegerClause(c) == \A i \in 1..Len(c) : IntegerDisequality(c[i])

\* C3: an accepted clause over integer variables, with integer coefficients
\* and constants, is valid: no integer assignment makes every disequality of
\* the clause false.
C3_Sound ==
    (rule = "la_generic" /\ result = "Ok" /\ IntegerClause(conclusion)) =>
        \A env \in Assignments : \E i \in 1..Len(conclusion) : Truth(conclusion[i], env)

\* Steps 1 to 3 applied to the i-th disequality of the conclusion
Prepared(i) == move_and_flip(negate_disequality(conclusion[i])).d

Divisible(r) == numer(r) % denom(r) = 0

\* C5: every integrality test of strengthen and coefficients_gcd on a raw
\* rational decides by divisibility of the numerator by the denominator.
C5_IntegralityByDivisibility ==
    (rule = "la_generic" /\ pc \in {"fold", "done"}) =>
        \A i \in 1..(idx - 1) :
            LET d == Prepared(i) IN
            /\ strengthen_is_integer(d, arg_value(i))
                   <=> Divisible(raw_mul(d.constant, arg_value(i)))
            /\ gcd_is_integer(d.constant) <=> Divisible(d.constant)
            /\ \A k \in DOMAIN d.map : gcd_is_integer(d.map[k]) <=> Divisible(d.map[k])

\* la_generic on the clause of the edge-case test, computed with the +1
\* strengthening
Ones == [i \in 1..4 |-> TermArg(Integer(1))]

EdgeItemPlusOne(i) ==
    LET f == move_and_flip(negate_disequality(EdgeClause[i]))
    IN  scale(strengthen_plus_one(f.op, f.d, rone), rone)

EdgeVerdictPlusOne ==
    LET i1 == EdgeItemPlusOne(1)
        i2 == EdgeItemPlusOne(2)
        i3 == EdgeItemPlusOne(3)
        i4 == EdgeItemPlusOne(4)
        total == add(add(add(add(new, i1.d), i2.d), i3.d), i4.d)
        op == accumulate_op(accumulate_op(accumulate_op(
                  accumulate_op("Equals", i1.op), i2.op), i3.op), i4.op)
    IN  contradiction(op, total.map, total.constant)

\* C6: the edge-case step with args (1 1 1 1) is accepted, and it is rejected
\* when the strict integer case of strengthen adds 1 instead of the GCD.
C6_EdgeCase ==
    (rule = "la_generic" /\ conclusion = EdgeClause /\ args = Ones /\ pc = "done") =>
        /\ result = "Ok"
        /\ ~EdgeVerdictPlusOne

C6_Witness ==
    /\ rule = "la_generic" /\ conclusion = EdgeClause /\ args = Ones
    /\ pc = "done" /\ result = "Ok" /\ idx = 5

(***************************************************************************)
(* LinearComb on its own: any sequence of its operations                   *)
(***************************************************************************)
LcTerms ==
    {var_n, Integer(1), Op("Add", <<var_n, var_m>>), Op("Sub", <<var_n, var_m>>),
     Op("Mult", <<Integer(2), var_n>>), Op("Mult", <<var_m, Integer(0)>>),
     Op("Mult", <<var_n, var_m>>)}

LcScalars == {<<0, 1>>, <<1, 1>>, <<2, 1>>, <<-1, 2>>}

LcCoefficients == {<<1, 1>>, <<-1, 1>>, <<1, 2>>}

LcFromTerm ==
    /\ rule = "LinearComb" /\ nops < MaxOps
    /\ \E t \in LcTerms : lc' = from_term(t)
    /\ nops' = nops + 1
    /\ UNCHANGED <<other_vars, rule, conclusion, args, premises, pc, idx, acc_op, acc, result,
                   encountered>>

LcInsert ==
    /\ rule = "LinearComb" /\ nops < MaxOps
    /\ \E key \in {var_n, var_m}, value \in LcCoefficients :
          lc' = insert(lc, key, value)
    /\ nops' = nops + 1
    /\ UNCHANGED <<other_vars, rule, conclusion, args, premises, pc, idx, acc_op, acc, result,
                   encountered>>

LcAdd ==
    /\ rule = "LinearComb" /\ nops < MaxOps
    /\ \E t \in LcTerms : lc' = add(lc, from_term(t))
    /\ nops' = nops + 1
    /\ UNCHANGED <<other_vars, rule, conclusion, args, premises, pc, idx, acc_op, acc, result,
                   encountered>>

LcSub ==
    /\ rule = "LinearComb" /\ nops < MaxOps
    /\ \E t \in LcTerms : lc' = sub(lc, from_term(t))
    /\ nops' = nops + 1
    /\ UNCHANGED <<other_vars, rule, conclusion, args, premises, pc, idx, acc_op, acc, result,
                   encountered>>

LcNeg ==
    /\ rule = "LinearComb" /\ nops < MaxOps
    /\ lc' = neg(lc)
    /\ nops' = nops + 1
    /\ UNCHANGED <<other_vars, rule, conclusion, args, premises, pc, idx, acc_op, acc, result,
                   encountered>>

LcMul ==
    /\ rule = "LinearComb" /\ nops < MaxOps
    /\ \E scalar \in LcScalars : lc' = mul(lc, scalar)
    /\ nops' = nops + 1
    /\ UNCHANGED <<other_vars, rule, conclusion, args, premises, pc, idx, acc_op, acc, result,
                   encountered>>

InitLinearComb ==
    /\ OtherIdle
    /\ rule = "LinearComb" /\ lc = new /\ nops = 0
    /\ conclusion = <<>> /\ args = <<>> /\ premises = <<>>
    /\ pc = "start" /\ idx = 1 /\ acc_op = "Equals" /\ acc = new
    /\ result = "none" /\ encountered = EmptyMap

NextLinearComb == LcFromTerm \/ LcInsert \/ LcAdd \/ LcSub \/ LcNeg \/ LcMul

SpecLinearComb == InitLinearComb /\ [][NextLinearComb]_vars

\* C4: no key of the coefficient map of a reachable LinearComb maps to zero.
C4_NoZeroCoefficient ==
    rule = "LinearComb" => \A k \in DOMAIN lc.map : ~is_zero(lc.map[k])

(***************************************************************************)
(* la_tautology                                                            *)
(***************************************************************************)
\* match_term!((rel s d) = t) and match_term!((not (rel s d)) = t)
match_rel(t, rel) == IsOp(t, rel) /\ Len(t.args) = 2
match_not_rel(t, rel) ==
    IsOp(t, "Not") /\ Len(t.args) = 1 /\ match_rel(t.args[1], rel)
\* the (s, d) captured by a successful match
captured(t) == IF IsOp(t, "Not") THEN t.args[1].args ELSE t.args

\* r1?; r2
and_then(r1, r2) == IF r1 # "Ok" THEN r1 ELSE r2

assert_eq(a, b) == IF a = b THEN "Ok" ELSE "TermsNotEqual"

assert_less_than(a, b) ==
    IF ~as_signed_number(a).some \/ ~as_signed_number(b).some
    THEN "ExpectedAnyNumber"
    ELSE IF rlt(as_signed_number(a).val, as_signed_number(b).val)
    THEN "Ok" ELSE "ExpectedLessThan"

\* the comparison is strict
assert_less_eq_strict(a, b) ==
    IF ~as_signed_number(a).some \/ ~as_signed_number(b).some
    THEN "ExpectedAnyNumber"
    ELSE IF rlt(as_signed_number(a).val, as_signed_number(b).val)
    THEN "Ok" ELSE "ExpectedLessEq"

assert_less_eq(a, b) ==
    IF ~as_signed_number(a).some \/ ~as_signed_number(b).some
    THEN "ExpectedAnyNumber"
    ELSE IF rle(as_signed_number(a).val, as_signed_number(b).val)
    THEN "Ok" ELSE "ExpectedLessEq"

\* Second form: the five cases over (or first second)
la_tautology_or(first, second) ==
    LET s_1 == captured(first)[1]
        d_1 == captured(first)[2]
        s_2 == captured(second)[1]
        d_2 == captured(second)[2]
    IN  IF match_not_rel(first, "LessEq") /\ match_rel(second, "LessEq")
            THEN and_then(assert_eq(s_1, s_2), assert_less_eq(d_1, d_2))
        ELSE IF match_rel(first, "LessEq") /\ match_not_rel(second, "LessEq")
            THEN and_then(assert_eq(s_1, s_2), assert_eq(d_1, d_2))
        ELSE IF match_not_rel(first, "GreaterEq") /\ match_rel(second, "GreaterEq")
            THEN and_then(assert_eq(s_1, s_2), assert_less_eq(d_2, d_1))
        ELSE IF match_rel(first, "GreaterEq") /\ match_not_rel(second, "GreaterEq")
            THEN and_then(assert_eq(s_1, s_2), assert_eq(d_1, d_2))
        ELSE IF match_not_rel(first, "LessEq") /\ match_not_rel(second, "GreaterEq")
            THEN and_then(assert_eq(s_1, s_2), assert_less_than(d_1, d_2))
        ELSE "NotValidTautologyCase"

\* the constant may not be zero under >
is_tautology_positive(op, disequality) ==
    disequality.map = EmptyMap /\ is_positive(disequality.constant)

\* First form: the final disequality should be tautological
is_tautology(op, disequality) ==
    /\ disequality.map = EmptyMap
    /\ \/ is_positive(disequality.constant)
       \/ op = "GreaterThan" /\ is_zero(disequality.constant)

LaTautology ==
    /\ rule = "la_tautology" /\ pc = "start"
    /\ pc' = "done"
    /\ IF Len(conclusion) # 1
       THEN /\ result' = "ClauseLengthMismatch"
            /\ UNCHANGED <<acc_op, acc>>
       ELSE IF IsOp(conclusion[1], "Or") /\ Len(conclusion[1].args) = 2
       THEN /\ result' = la_tautology_or(conclusion[1].args[1], conclusion[1].args[2])
            /\ UNCHANGED <<acc_op, acc>>
       ELSE LET negated == negate_disequality(conclusion[1]) IN
            IF negated.err # ""
            THEN /\ result' = negated.err
                 /\ UNCHANGED <<acc_op, acc>>
            ELSE LET f == move_and_flip(negated) IN
                 /\ acc_op' = f.op
                 /\ acc' = f.d
                 /\ result' = (IF is_tautology(f.op, f.d)
                               THEN "Ok" ELSE "DisequalityIsNotTautology")
    /\ UNCHANGED <<other_vars, rule, conclusion, args, premises, idx, lc, nops, encountered>>

(***************************************************************************)
(* Inputs of la_tautology                                                  *)
(***************************************************************************)
MaxBound == 2

var_x == Var("x")
var_y == Var("y")

TautSubjects == {var_x, var_y}

\* literal bounds
TautBounds ==
    {Real(k, 1) : k \in 1..MaxBound}
    \cup {Integer(1), Real(3, 2), Minus(Real(1, 1))}

TautLiterals ==
    UNION {{Op("LessEq", <<s, d>>), Not(Op("LessEq", <<s, d>>)),
            Op("GreaterEq", <<s, d>>), Not(Op("GreaterEq", <<s, d>>)),
            Op("LessThan", <<s, d>>)}
           : <<s, d>> \in TautSubjects \X (TautBounds \cup {var_y})}

TautSides ==
    {var_n, Integer(0), Integer(1), Op("Add", <<Integer(1), var_n>>),
     Op("Sub", <<var_n, Integer(1)>>),
     Op("Sub", <<Op("Add", <<Integer(1), var_n>>), var_n>>)}

TautDisequalities ==
    UNION {{Op(o, <<l, r>>), Not(Op(o, <<l, r>>))}
           : <<o, l, r>> \in RelOps \X TautSides \X TautSides}

TautOthers ==
    NotDisequalities
    \cup {var_x, Op("Or", <<var_x, var_y, var_x>>), Not(var_x),
          Op("LessEq", <<var_x, var_y, var_x>>)}

InitLaTautology ==
    /\ OtherIdle
    /\ rule = "la_tautology"
    /\ \/ \E first \in TautLiterals, second \in TautLiterals :
             conclusion = <<Op("Or", <<first, second>>)>>
       \/ \E t \in TautDisequalities \cup TautOthers : conclusion = <<t>>
       \/ conclusion = <<>>
       \/ \E t \in TautOthers : conclusion = <<Op("LessEq", <<var_n, var_n>>), t>>
    /\ args = <<>>
    /\ pc = "start" /\ idx = 1 /\ acc_op = "Equals" /\ acc = new
    /\ result = "none"
    /\ Idle

NextLaTautology == LaTautology

SpecLaTautology == InitLaTautology /\ [][NextLaTautology]_vars

(***************************************************************************)
(* Properties of la_tautology                                              *)
(***************************************************************************)
Value(d) == as_signed_number(d).val

IsLiteralBound(d) ==
    \/ d.kind \in {"Integer", "Real"}
    \/ IsOp(d, "Sub") /\ Len(d.args) = 1 /\ d.args[1].kind \in {"Integer", "Real"}

Le(s, d) == Op("LessEq", <<s, d>>)
Ge(s, d) == Op("GreaterEq", <<s, d>>)

\* The two literals of the k-th pattern, over a term s and a bound d
FirstLiteral(k, s, d) ==
    CASE k = 1 -> Not(Le(s, d))
      [] k = 2 -> Le(s, d)
      [] k = 3 -> Not(Ge(s, d))
      [] k = 4 -> Ge(s, d)
      [] k = 5 -> Not(Le(s, d))

SecondLiteral(k, s, d) ==
    CASE k = 1 -> Le(s, d)
      [] k = 2 -> Not(Le(s, d))
      [] k = 3 -> Ge(s, d)
      [] k = 4 -> Not(Ge(s, d))
      [] k = 5 -> Not(Ge(s, d))

CaseRelation(k, d1, d2) ==
    CASE k = 1 -> rle(Value(d1), Value(d2))
      [] k = 2 -> d1 = d2
      [] k = 3 -> rle(Value(d2), Value(d1))
      [] k = 4 -> d1 = d2
      [] k = 5 -> rlt(Value(d1), Value(d2))

TautTerms == TautSubjects \cup TautBounds

\* (or first second) is an instance of one of the five patterns
MatchesSomeCase(first, second) ==
    \E k \in 1..5 :
        /\ \E s1 \in TautTerms, d1 \in TautTerms : first = FirstLiteral(k, s1, d1)
        /\ \E s2 \in TautTerms, d2 \in TautTerms : second = SecondLiteral(k, s2, d2)

\* ... with the same s on both sides, literal bounds and the case's relation
StatedTautology(first, second) ==
    \E k \in 1..5 : \E s \in TautTerms : \E d1 \in TautBounds :
        /\ first = FirstLiteral(k, s, d1)
        /\ \E d2 \in TautBounds :
              second = SecondLiteral(k, s, d2) /\ CaseRelation(k, d1, d2)

\* every bound of the two literals is a numeric literal
OverLiteralBounds(first, second) ==
    \A t \in {first, second} :
        (match_rel(t, "LessEq") \/ match_rel(t, "GreaterEq")
         \/ match_not_rel(t, "LessEq") \/ match_not_rel(t, "GreaterEq"))
            => IsLiteralBound(captured(t)[2])

SecondForm ==
    /\ rule = "la_tautology" /\ pc = "done" /\ Len(conclusion) = 1
    /\ IsOp(conclusion[1], "Or") /\ Len(conclusion[1].args) = 2

C7_WitnessRejected ==
    /\ SecondForm /\ result = "ExpectedLessThan"
    /\ conclusion[1].args[1] = Not(Le(var_x, Real(1, 1)))
    /\ conclusion[1].args[2] = Not(Ge(var_x, Integer(1)))

FirstForm ==
    /\ rule = "la_tautology" /\ pc = "done" /\ Len(conclusion) = 1
    /\ ~(IsOp(conclusion[1], "Or") /\ Len(conclusion[1].args) = 2)

C8_WitnessRejected ==
    /\ FirstForm /\ result = "DisequalityIsNotTautology"
    /\ acc_op = "GreaterEq" /\ is_zero(acc.constant) /\ DOMAIN acc.map = {}

(***************************************************************************)
(* la_rw_eq and la_disequality                                             *)
(***************************************************************************)
\* match_term_err!((= (= t u) (and (<= t u) (<= u t))) = term)
matches_rw_eq(term) ==
    /\ match_rel(term, "Equals")
    /\ match_rel(term.args[1], "Equals")
    /\ IsOp(term.args[2], "And") /\ Len(term.args[2].args) = 2
    /\ match_rel(term.args[2].args[1], "LessEq")
    /\ match_rel(term.args[2].args[2], "LessEq")

\* the last identity check is missing
la_rw_eq_unchecked(c) ==
    IF Len(c) # 1 THEN "ClauseLengthMismatch"
    ELSE IF ~matches_rw_eq(c[1]) THEN "TermDoesNotMatch"
    ELSE LET t_1 == c[1].args[1].args[1]
             u_1 == c[1].args[1].args[2]
             t_2 == c[1].args[2].args[1].args[1]
             u_2 == c[1].args[2].args[1].args[2]
             t_3 == c[1].args[2].args[2].args[2]
         IN  and_then(assert_eq(t_1, t_2),
             and_then(assert_eq(t_2, t_3), assert_eq(u_1, u_2)))

la_rw_eq(c) ==
    IF Len(c) # 1 THEN "ClauseLengthMismatch"
    ELSE IF ~matches_rw_eq(c[1]) THEN "TermDoesNotMatch"
    ELSE LET t_1 == c[1].args[1].args[1]
             u_1 == c[1].args[1].args[2]
             t_2 == c[1].args[2].args[1].args[1]
             u_2 == c[1].args[2].args[1].args[2]
             u_3 == c[1].args[2].args[2].args[1]
             t_3 == c[1].args[2].args[2].args[2]
         IN  and_then(assert_eq(t_1, t_2),
             and_then(assert_eq(t_2, t_3),
             and_then(assert_eq(u_1, u_2), assert_eq(u_2, u_3))))

\* match_term_err!((or (= t1 t2) (not (<= t1 t2)) (not (<= t2 t1))) = term)
matches_disequality(term) ==
    /\ IsOp(term, "Or") /\ Len(term.args) = 3
    /\ match_rel(term.args[1], "Equals")
    /\ match_not_rel(term.args[2], "LessEq")
    /\ match_not_rel(term.args[3], "LessEq")

la_disequality(c) ==
    IF Len(c) # 1 THEN "ClauseLengthMismatch"
    ELSE IF ~matches_disequality(c[1]) THEN "TermDoesNotMatch"
    ELSE LET t1_1 == c[1].args[1].args[1]
             t2_1 == c[1].args[1].args[2]
             t1_2 == c[1].args[2].args[1].args[1]
             t2_2 == c[1].args[2].args[1].args[2]
             t2_3 == c[1].args[3].args[1].args[1]
             t1_3 == c[1].args[3].args[1].args[2]
         IN  and_then(assert_eq(t1_1, t1_2),
             and_then(assert_eq(t1_2, t1_3),
             and_then(assert_eq(t2_1, t2_2), assert_eq(t2_2, t2_3))))

LaRwEq ==
    /\ rule = "la_rw_eq" /\ pc = "start"
    /\ result' = la_rw_eq(conclusion)
    /\ pc' = "done"
    /\ UNCHANGED <<other_vars, rule, conclusion, args, premises, idx, acc_op, acc,
                   lc, nops, encountered>>

LaDisequality ==
    /\ rule = "la_disequality" /\ pc = "start"
    /\ result' = la_disequality(conclusion)
    /\ pc' = "done"
    /\ UNCHANGED <<other_vars, rule, conclusion, args, premises, idx, acc_op, acc,
                   lc, nops, encountered>>

(***************************************************************************)
(* Inputs of la_rw_eq and la_disequality                                   *)
(***************************************************************************)
MaxShapeTerms == 3

ShapeTerms ==
    {Var("a"), Var("b"), Op("Add", <<Var("a"), Var("b")>>), Integer(1), Var("x")}

\* the first MaxShapeTerms of these terms fill the six positions
Position(k) ==
    CASE k = 1 -> Var("a")
      [] k = 2 -> Var("b")
      [] k = 3 -> Op("Add", <<Var("a"), Var("b")>>)
      [] k = 4 -> Integer(1)
      [] OTHER -> Var("x")

PositionTerms == {Position(k) : k \in 1..MaxShapeTerms}

\* (eq (rel1 p1 p2) (conn (rel2 p3 p4) (rel2 p5 p6)))
RwEqLike(rel1, conn, rel2, p) ==
    Op("Equals", <<Op(rel1, <<p[1], p[2]>>),
                   Op(conn, <<Op(rel2, <<p[3], p[4]>>), Op(rel2, <<p[5], p[6]>>)>>)>>)

\* (or (rel1 p1 p2) (not (rel2 p3 p4)) (not (rel2 p5 p6)))
DisequalityLike(rel1, rel2, p) ==
    Op("Or", <<Op(rel1, <<p[1], p[2]>>), Not(Op(rel2, <<p[3], p[4]>>)),
               Not(Op(rel2, <<p[5], p[6]>>))>>)

ShapeCandidates ==
    UNION {{RwEqLike("Equals", "And", "LessEq", p),
            DisequalityLike("Equals", "LessEq", p)}
           : p \in [1..6 -> PositionTerms]}
    \cup UNION {{RwEqLike("Equals", "Or", "LessEq", p),
                 RwEqLike("LessEq", "And", "LessEq", p),
                 RwEqLike("Equals", "And", "GreaterEq", p),
                 DisequalityLike("LessEq", "LessEq", p),
                 DisequalityLike("Equals", "GreaterEq", p),
                 Op("Or", <<Op("Equals", <<p[1], p[2]>>),
                            Not(Op("LessEq", <<p[3], p[4]>>))>>),
                 Op("Or", <<Op("Equals", <<p[1], p[2]>>),
                            Op("LessEq", <<p[3], p[4]>>),
                            Not(Op("LessEq", <<p[5], p[6]>>))>>)}
                : p \in {[i \in 1..6 |-> Position(IF i \in {1, 3, 6} THEN 1 ELSE 2)]}}

GoodRwEq == RwEqLike("Equals", "And", "LessEq",
                     [i \in 1..6 |-> Position(IF i \in {1, 3, 6} THEN 1 ELSE 2)])

GoodDisequality == DisequalityLike("Equals", "LessEq",
                     [i \in 1..6 |-> Position(IF i \in {1, 3, 6} THEN 1 ELSE 2)])

InitShape ==
    /\ OtherIdle
    /\ rule \in {"la_rw_eq", "la_disequality"}
    /\ \/ \E t \in ShapeCandidates : conclusion = <<t>>
       \/ conclusion = <<>>
       \/ conclusion \in {<<GoodRwEq, GoodRwEq>>, <<GoodDisequality, GoodDisequality>>,
                          <<GoodRwEq, GoodDisequality>>}
    /\ args = <<>>
    /\ pc = "start" /\ idx = 1 /\ acc_op = "Equals" /\ acc = new
    /\ result = "none"
    /\ Idle

NextShape == LaRwEq \/ LaDisequality

SpecShape == InitShape /\ [][NextShape]_vars

(***************************************************************************)
(* Properties of la_rw_eq and la_disequality                               *)
(***************************************************************************)
RwEqOf(t, u) ==
    Op("Equals", <<Op("Equals", <<t, u>>),
                   Op("And", <<Op("LessEq", <<t, u>>), Op("LessEq", <<u, t>>)>>)>>)

DisequalityOf(t1, t2) ==
    Op("Or", <<Op("Equals", <<t1, t2>>), Not(Op("LessEq", <<t1, t2>>)),
               Not(Op("LessEq", <<t2, t1>>))>>)

\* C9: la_rw_eq accepts exactly the one-term clauses
\* (= (= t u) (and (<= t u) (<= u t))) and la_disequality exactly the one-term
\* clauses (or (= t1 t2) (not (<= t1 t2)) (not (<= t2 t1))); a clause with the
\* operands swapped at one position, or of another length, is rejected.
C9_ExactShape ==
    /\ (rule = "la_rw_eq" /\ pc = "done") =>
          (result = "Ok" <=>
              /\ Len(conclusion) = 1
              /\ \E t \in ShapeTerms, u \in ShapeTerms : conclusion[1] = RwEqOf(t, u))
    /\ (rule = "la_disequality" /\ pc = "done") =>
          (result = "Ok" <=>
              /\ Len(conclusion) = 1
              /\ \E t1 \in ShapeTerms, t2 \in ShapeTerms :
                    conclusion[1] = DisequalityOf(t1, t2))
    /\ (rule \in {"la_rw_eq", "la_disequality"} /\ pc = "done"
            /\ Len(conclusion) # 1) => result = "ClauseLengthMismatch"

C9_Witness ==
    /\ rule = "la_rw_eq" /\ pc = "done" /\ result = "Ok"
    /\ conclusion = <<RwEqOf(Var("a"), Var("b"))>>

C9_WitnessDisequality ==
    /\ rule = "la_disequality" /\ pc = "done" /\ result = "Ok"
    /\ conclusion = <<DisequalityOf(Var("a"), Var("b"))>>

C9_WitnessSwapped ==
    /\ rule = "la_disequality" /\ pc = "done" /\ result = "TermsNotEqual"
    /\ conclusion = <<Op("Or", <<Op("Equals", <<Var("b"), Var("a")>>),
                                 Not(Op("LessEq", <<Var("a"), Var("b")>>)),
                                 Not(Op("LessEq", <<Var("b"), Var("a")>>))>>)>>

(***************************************************************************)
(* The resolution rule of the checking engine                              *)
(***************************************************************************)
\* ProofCommand::Assume(term) and ProofCommand::Step { clause, .. }
Assume(term) == [assume |-> TRUE, clause |-> <<term>>]
Step(clause) == [assume |-> FALSE, clause |-> clause]

\* (positive term, Polarity)
to_positive(term) ==
    IF IsOp(term, "Not")
    THEN [term |-> term.args[1], polarity |-> "Negative"]
    ELSE [term |-> term, polarity |-> "Positive"]

\* an occupied entry takes the polarity met last
record_last_polarity(polarities, term) ==
    LET p == to_positive(term) IN
    [k \in (DOMAIN polarities) \cup {p.term} |->
        IF k = p.term THEN p.polarity ELSE polarities[k]]

\* encountered_polarities.entry(term) for one term of a premise
record_polarity(polarities, term) ==
    LET p == to_positive(term) IN
    IF p.term \notin DOMAIN polarities
    THEN [k \in (DOMAIN polarities) \cup {p.term} |->
             IF k = p.term THEN p.polarity ELSE polarities[k]]
    ELSE IF polarities[p.term] # "Both" /\ polarities[p.term] # p.polarity
    THEN [polarities EXCEPT ![p.term] = "Both"]
    ELSE polarities

\* the inner loop over the terms of one premise clause, from its i-th term on
RECURSIVE record_clause(_, _, _)
record_clause(polarities, clause, i) ==
    IF i > Len(clause) THEN polarities
    ELSE record_clause(record_polarity(polarities, clause[i]), clause, i + 1)

\* the outer loop over the premises, from the i-th on
RECURSIVE record_premises(_, _, _)
record_premises(polarities, commands, i) ==
    IF i > Len(commands) THEN polarities
    ELSE record_premises(record_clause(polarities, commands[i].clause, 1),
                         commands, i + 1)

\* the final comparison of the target clause with the recorded polarities
matches_polarities(polarities, clause) ==
    LET expected_len == Cardinality({k \in DOMAIN polarities : polarities[k] # "Both"})
    IN  /\ Len(clause) = expected_len
        /\ \A i \in 1..Len(clause) :
              LET p == to_positive(clause[i]) IN
              p.term \in DOMAIN polarities /\ polarities[p.term] = p.polarity

resolution(clause, commands) ==
    matches_polarities(record_premises(EmptyMap, commands, 1), clause)

ResolutionPremise ==
    /\ rule = "resolution" /\ pc = "start" /\ idx <= Len(premises)
    /\ encountered' = record_clause(encountered, premises[idx].clause, 1)
    /\ idx' = idx + 1
    /\ UNCHANGED <<other_vars, rule, conclusion, args, premises, pc, acc_op, acc, result, lc, nops>>

ResolutionCheck ==
    /\ rule = "resolution" /\ pc = "start" /\ idx > Len(premises)
    /\ result' = (IF matches_polarities(encountered, conclusion) THEN "Ok" ELSE "false")
    /\ pc' = "done"
    /\ UNCHANGED <<other_vars, rule, conclusion, args, premises, idx, acc_op, acc, lc, nops,
                   encountered>>

(***************************************************************************)
(* Inputs of resolution                                                    *)
(***************************************************************************)
MaxPremiseLen == 2

var_p == Var("p")
var_q == Var("q")

Literals == {var_p, Not(var_p), var_q}

\* premise clauses: up to MaxPremiseLen distinct literals, in any order
Clauses ==
    {c \in UNION {[1..j -> Literals] : j \in 1..MaxPremiseLen} :
        \A i, j \in 1..Len(c) : c[i] = c[j] => i = j}

Commands == {Step(c) : c \in Clauses} \cup {Assume(var_p)}

InitResolution ==
    /\ OtherIdle
    /\ rule = "resolution"
    /\ premises \in SeqsUpTo(Commands, MaxPremises)
    /\ conclusion \in SeqsUpTo(Literals, 2)
    /\ args = <<>>
    /\ pc = "start" /\ idx = 1 /\ acc_op = "Equals" /\ acc = new
    /\ result = "none"
    /\ lc = new /\ nops = 0 /\ encountered = EmptyMap

NextResolution == ResolutionPremise \/ ResolutionCheck

SpecResolution == InitResolution /\ [][NextResolution]_vars

(***************************************************************************)
(* Properties of resolution                                                *)
(***************************************************************************)
Perms(k) == {f \in [1..k -> 1..k] : \A i, j \in 1..k : f[i] = f[j] => i = j}

\* the commands whose clause is a rearrangement of the clause of command c
CommandPerms(c) ==
    {[c EXCEPT !.clause = [i \in 1..Len(c.clause) |-> c.clause[f[i]]]]
        : f \in Perms(Len(c.clause))}

\* the premise lists that permute the premises ps
PremisePerms(ps) ==
    {[i \in 1..Len(ps) |-> ps[f[i]]] : f \in Perms(Len(ps))}

\* the premise lists that rearrange the terms inside each premise clause of ps
RECURSIVE InnerRearrangements(_)
InnerRearrangements(ps) ==
    IF ps = <<>>
    THEN {<<>>}
    ELSE {<<c>> \o r : c \in CommandPerms(Head(ps)),
                       r \in InnerRearrangements(Tail(ps))}

\* C10: the verdict of resolution is the same for every permutation of the
\* premises and for every permutation of the terms inside each premise clause.
\* Every premise list and every target clause of the bounded universe is a
\* start state, so the two conjuncts hold of every composition of both too.
C10_OrderIndependent ==
    (rule = "resolution" /\ pc = "done") =>
        /\ \A r \in PremisePerms(premises) :
              resolution(conclusion, r) <=> result = "Ok"
        /\ \A r \in InnerRearrangements(premises) :
              resolution(conclusion, r) <=> result = "Ok"

C10_Witness ==
    /\ rule = "resolution" /\ pc = "done" /\ result = "Ok"
    /\ Len(premises) = 2 /\ premises[1] # premises[2]
    /\ Len(premises[1].clause) = 2 /\ premises[1].clause[1] # premises[1].clause[2]
    /\ \E k \in DOMAIN encountered : encountered[k] = "Both"
    /\ Len(conclusion) = 1

\* the terms met in the premises with a single polarity
Surviving == {k \in DOMAIN encountered : encountered[k] # "Both"}

\* C11: when resolution accepts, every term met in the premises with a single
\* polarity is in the target clause with that polarity, and every term of the
\* target clause is such a term with its recorded polarity.
C11_TargetExact ==
    (rule = "resolution" /\ pc = "done" /\ result = "Ok") =>
        /\ \A k \in Surviving :
              \E i \in 1..Len(conclusion) :
                 to_positive(conclusion[i]) =
                    [term |-> k, polarity |-> encountered[k]]
        /\ \A i \in 1..Len(conclusion) :
              LET p == to_positive(conclusion[i]) IN
              p.term \in Surviving /\ encountered[p.term] = p.polarity

(***************************************************************************)
(* The checking engine: ProofChecker::check and the rules it dispatches to *)
(***************************************************************************)
\* Term::App(f, args)
App(f, fargs) == [kind |-> "App", name |-> f, args |-> fargs, num |-> rzero]

\* a command of Proof.0: ProofCommand::Assume(term) or
\* ProofCommand::Step { clause, rule, premises, args }
ProofAssume(term) ==
    [assume |-> TRUE, clause |-> <<term>>, rule |-> "", premises |-> <<>>]
ProofStep(clause, rule_name, indices) ==
    [assume |-> FALSE, clause |-> clause, rule |-> rule_name, premises |-> indices]

\* match_op!((= t u) = term) and match_op!((not (= t u)) = term)
match_op_eq(term) == IsOp(term, "Equals") /\ Len(term.args) = 2
match_op_not_eq(term) ==
    IsOp(term, "Not") /\ Len(term.args) = 1 /\ match_op_eq(term.args[1])

\* rules::or
or(clause, commands) ==
    IF Len(commands) # 1 THEN "false"
    ELSE IF ~commands[1].assume /\ Len(commands[1].clause) # 1 THEN "false"
    ELSE LET or_term == commands[1].clause[1] IN
         IF ~IsOp(or_term, "Or") THEN "false"
         ELSE IF or_term.args = clause THEN "true" ELSE "false"

\* the loop over the arguments of f and g; g_args[i] is out of range when g
\* has fewer arguments than f
RECURSIVE eq_congruent_args(_, _, _, _)
eq_congruent_args(clause, f_args, g_args, i) ==
    IF i > Len(clause) - 1 THEN "true"
    ELSE IF i > Len(g_args) THEN "panic"
    ELSE IF f_args[i] # clause[i].args[1].args[1]
            \/ g_args[i] # clause[i].args[1].args[2] THEN "false"
    ELSE eq_congruent_args(clause, f_args, g_args, i + 1)

\* rules::eq_congruent
eq_congruent(clause) ==
    IF Len(clause) < 2 THEN "false"
    ELSE IF \E i \in 1..(Len(clause) - 1) : ~match_op_not_eq(clause[i]) THEN "false"
    ELSE LET last == clause[Len(clause)] IN
         IF ~match_op_eq(last) THEN "false"
         ELSE LET f == last.args[1]
                  g == last.args[2]
              IN  IF f.kind # "App" \/ g.kind # "App" THEN "false"
                  ELSE IF f.name # g.name \/ Len(f.args) # Len(clause) - 1 THEN "false"
                  ELSE eq_congruent_args(clause, f.args, g.args, 1)

\* the registry of get_rule; any other name reaches todo!()
RuleNames == {"or", "eq_congruent", "resolution"}
get_rule(rule_name) == IF rule_name \in RuleNames THEN rule_name ELSE "todo!"

\* rule(&clause, premises, &args) for the rule get_rule returned
apply_rule(r, clause, commands) ==
    CASE r = "or" -> or(clause, commands)
      [] r = "eq_congruent" -> eq_congruent(clause)
      [] r = "resolution" -> (IF resolution(clause, commands) THEN "true" ELSE "false")

\* premises.iter().map(|&i| &self.proof.0[i]).collect()
step_premises(commands, step) ==
    [i \in 1..Len(step.premises) |-> commands[step.premises[i]]]

\* the walk goes on after a step whatever its rule answered
rejects_never(verdict) == FALSE

\* if !rule(&clause, premises, &args) { return false; }
rejects(verdict) == verdict = "false"

\* an Assume command: the loop body does nothing
CheckAssume ==
    /\ rule = "check" /\ pc = "start" /\ idx <= Len(proof)
    /\ proof[idx].assume
    /\ idx' = idx + 1
    /\ UNCHANGED <<rule, conclusion, args, premises, pc, acc_op, acc, result, lc,
                   nops, encountered, proof, invoked, cvc5, stages, error,
                   elaborator, warnings, ops>>

\* a Step command whose rule name is in the registry
CheckStep ==
    /\ rule = "check" /\ pc = "start" /\ idx <= Len(proof)
    /\ ~proof[idx].assume
    /\ get_rule(proof[idx].rule) # "todo!"
    /\ LET verdict == apply_rule(get_rule(proof[idx].rule), proof[idx].clause,
                                 step_premises(proof, proof[idx]))
       IN  /\ invoked' = Append(invoked, idx)
           /\ IF verdict = "panic"
              THEN /\ result' = "panic" /\ pc' = "done" /\ idx' = idx
              ELSE IF rejects(verdict)
              THEN /\ result' = "false" /\ pc' = "done" /\ idx' = idx
              ELSE /\ idx' = idx + 1 /\ UNCHANGED <<result, pc>>
    /\ UNCHANGED <<rule, conclusion, args, premises, acc_op, acc, lc, nops,
                   encountered, proof, cvc5, stages, error, elaborator,
                   warnings, ops>>

\* a Step command whose rule name is not in the registry: todo!() panics
CheckUnknownRule ==
    /\ rule = "check" /\ pc = "start" /\ idx <= Len(proof)
    /\ ~proof[idx].assume
    /\ get_rule(proof[idx].rule) = "todo!"
    /\ result' = "panic" /\ pc' = "done"
    /\ UNCHANGED <<rule, conclusion, args, premises, idx, acc_op, acc, lc, nops,
                   encountered, proof, invoked, cvc5, stages, error, elaborator,
                   warnings, ops>>

\* the end of the loop
CheckReturn ==
    /\ rule = "check" /\ pc = "start" /\ idx > Len(proof)
    /\ result' = "true" /\ pc' = "done"
    /\ UNCHANGED <<rule, conclusion, args, premises, idx, acc_op, acc, lc, nops,
                   encountered, proof, invoked, cvc5, stages, error, elaborator,
                   warnings, ops>>

(***************************************************************************)
(* Inputs of the engine                                                    *)
(***************************************************************************)
MaxCommands == 2

OrPQ == Op("Or", <<var_p, var_q>>)

\* (cl (not (= p q)) (= (f p) (f q)))
EqCongruentClause ==
    <<Not(Op("Equals", <<var_p, var_q>>)),
      Op("Equals", <<App("f", <<var_p>>), App("f", <<var_q>>)>>)>>

\* the assertions of the problem the proof is for
ProblemPremises == {OrPQ}

AssumedTerms == {OrPQ, Not(var_p)}
StepClauses == {<<var_p, var_q>>, <<var_q>>, <<var_p>>, EqCongruentClause}
StepRules == RuleNames \cup {"trust"}

\* the increasing lists of indices of the commands before the k-th
RECURSIVE EarlierIndices(_)
EarlierIndices(k) ==
    IF k <= 1 THEN {<<>>}
    ELSE EarlierIndices(k - 1)
         \cup {Append(s, k - 1) : s \in EarlierIndices(k - 1)}

\* the commands that can stand at position k of a proof
CommandsAt(k) ==
    {ProofAssume(t) : t \in AssumedTerms}
    \cup {ProofStep(c, r, s) : c \in StepClauses, r \in StepRules,
                               s \in EarlierIndices(k)}

Proofs ==
    {s \in UNION {[1..k -> CommandsAt(MaxCommands)] : k \in 0..MaxCommands} :
        \A k \in 1..Len(s) : s[k] \in CommandsAt(k)}

InitEngine ==
    /\ rule = "check"
    /\ proof \in Proofs
    /\ conclusion = <<>> /\ args = <<>>
    /\ pc = "start" /\ idx = 1 /\ acc_op = "Equals" /\ acc = new
    /\ result = "none"
    /\ Idle
    /\ invoked = <<>>
    /\ cvc5 = <<>> /\ stages = <<>> /\ error = "none"
    /\ elaborator = <<>> /\ warnings = 0
    /\ ops = <<>>

NextEngine == CheckAssume \/ CheckStep \/ CheckUnknownRule \/ CheckReturn

SpecEngine == InitEngine /\ [][NextEngine]_vars

(***************************************************************************)
(* Properties of the engine                                                *)
(***************************************************************************)
\* the rule of the i-th command is in the registry and accepts the step
Accepts(i) ==
    /\ get_rule(proof[i].rule) # "todo!"
    /\ apply_rule(get_rule(proof[i].rule), proof[i].clause,
                  step_premises(proof, proof[i])) = "true"

\* the rule of the i-th command is in the registry and rejects the step
Rejects(i) ==
    /\ get_rule(proof[i].rule) # "todo!"
    /\ apply_rule(get_rule(proof[i].rule), proof[i].clause,
                  step_premises(proof, proof[i])) = "false"

InvokedIndices == {invoked[j] : j \in 1..Len(invoked)}

\* C12: check invokes the rules of the steps in source order without skipping
\* a step, goes past a step only when its rule accepted, invokes no rule after
\* the first rejection, and when the walk is over it has returned success if and only
\* if the rule of every step accepted.
C12_InOrderShortCircuit ==
    (rule = "check") =>
        /\ \A j, k \in 1..Len(invoked) : j < k => invoked[j] < invoked[k]
        /\ \A i \in InvokedIndices : i <= idx /\ i <= Len(proof) /\ ~proof[i].assume
        /\ \A i \in 1..Len(proof) :
              (i < idx /\ ~proof[i].assume) => (i \in InvokedIndices /\ Accepts(i))
        /\ (pc = "done" /\ result = "false") =>
              (idx \in InvokedIndices /\ Rejects(idx))
        /\ (pc = "done") =>
              (result = "true" <=>
                  \A i \in 1..Len(proof) : ~proof[i].assume => Accepts(i))

\* the first step is rejected and the step after it is never invoked
C12_Witness ==
    /\ rule = "check" /\ pc = "done" /\ result = "false"
    /\ Len(proof) = 2 /\ ~proof[1].assume /\ ~proof[2].assume
    /\ invoked = <<1>>

\* two steps are invoked in order and accepted
C12_WitnessAccepted ==
    /\ rule = "check" /\ pc = "done" /\ result = "true"
    /\ invoked = <<1, 2>>

\* C13: a proof that check accepts has no Assume command whose term is not
\* among the premises of the problem.
C13_AssumeVerified ==
    (rule = "check" /\ pc = "done" /\ result = "true") =>
        \A i \in 1..Len(proof) :
            proof[i].assume => proof[i].clause[1] \in ProblemPremises

\* C14: a step whose rule name is not in the registry never makes check abort
\* abnormally.
C14_UnknownRuleIsError ==
    (rule = "check" /\ pc = "done" /\ idx <= Len(proof)
        /\ ~proof[idx].assume /\ proof[idx].rule \notin RuleNames) =>
            result # "panic"

(***************************************************************************)
(* The lia_generic bridge: the elaborator and insert_cvc5_proof            *)
(***************************************************************************)
\* pool.bool_false()
bool_false == Var("false")

\* the commands of an elaborated proof
ElabAssume(id, term) ==
    [kind |-> "Assume", id |-> id, term |-> term, clause |-> <<>>, rule |-> "",
     premises |-> <<>>, discharge |-> <<>>, commands |-> <<>>]
ElabStep(id, clause, rule_name, refs, discharge) ==
    [kind |-> "Step", id |-> id, term |-> bool_false, clause |-> clause,
     rule |-> rule_name, premises |-> refs, discharge |-> discharge,
     commands |-> <<>>]
ElabSubproof(commands) ==
    [kind |-> "Subproof", id |-> <<>>, term |-> bool_false, clause |-> <<>>,
     rule |-> "", premises |-> <<>>, discharge |-> <<>>, commands |-> commands]

\* Option<&mut Elaborator>: the commands accumulated so far, the elaborated
\* steps pushed, the conclusions recorded as unchanged, the next fresh id
NoElaborator ==
    [present |-> FALSE, accumulator |-> <<>>, elaborated |-> <<>>,
     unchanged |-> <<>>, ids |-> 0]
NewElaborator ==
    [present |-> TRUE, accumulator |-> <<>>, elaborated |-> <<>>,
     unchanged |-> <<>>, ids |-> 0]

\* elaborator.get_new_id(root_id): the k-th id handed out from now on
get_new_id(elab, root_id, k) == <<root_id, elab.ids + k - 1>>

\* elaborator.unchanged(conclusion)
unchanged(elab, clause) ==
    [elab EXCEPT !.unchanged = Append(@, clause)]

\* elaborator.add_new_step(step) and the closing of the accumulator
\* sub-proof: the command is appended and its (depth, index) is returned
add_new_command(elab, command) ==
    [elab EXCEPT !.accumulator = Append(@, command)]
next_index(elab) == <<0, Len(elab.accumulator)>>

\* elaborator.push_elaborated_step(step)
push_elaborated_step(elab, step) ==
    [elab EXCEPT !.elaborated = Append(@, step)]

\* update_premises(commands, depth_delta, index_delta, root_id)
RECURSIVE update_premises(_, _, _, _)
update_premises(commands, depth_delta, index_delta, root_id) ==
    [i \in 1..Len(commands) |->
        LET c == commands[i] IN
        IF c.kind = "Assume" THEN [c EXCEPT !.id = root_id \o @]
        ELSE IF c.kind = "Step"
        THEN [c EXCEPT !.id = root_id \o @,
                       !.premises = [j \in 1..Len(@) |->
                                       <<@[j][1] + depth_delta,
                                         @[j][2] + index_delta>>]]
        ELSE [c EXCEPT !.commands = update_premises(@, depth_delta, 0, root_id)]]

\* the positions of the Assume commands of the solver's proof
assume_positions(commands) ==
    LET IsAssume(i) == commands[i].kind = "Assume"
    IN  SelectSeq([i \in 1..Len(commands) |-> i], IsAssume)

\* the premises of the final resolution step, without the `false` step
resolution_premises_no_false(subproof, not_not_steps, false_step) ==
    <<subproof>> \o not_not_steps

\* vec![subproof], extended by the not_not steps, then the `false` step
resolution_premises(subproof, not_not_steps, false_step) ==
    (<<subproof>> \o not_not_steps) \o <<false_step>>

insert_cvc5_proof(elab, commands, clause_in, root_id) ==
    LET subproof_id == get_new_id(elab, root_id, 1)
        e1 == [elab EXCEPT !.ids = @ + 1]
        positions == assume_positions(commands)
        proof_premises ==
            {remove_negation(commands[positions[j]].term).term :
                j \in 1..Len(positions)}
        Missing(t) == t \notin proof_premises
        missing == SelectSeq(clause_in, Missing)
        num_added == Len(missing)
        added == [j \in 1..num_added |->
                    ElabAssume(get_new_id(e1, root_id, j), missing[j])]
        e2 == [e1 EXCEPT !.ids = @ + num_added]
        negated == [j \in 1..Len(positions) |-> Not(commands[positions[j]].term)]
        discharge == [j \in 1..Len(positions) |-> <<1, positions[j] - 1>>]
        clause == Append(negated, bool_false)
        updated == update_premises(commands, 1, num_added, subproof_id)
        end_step == ElabStep(subproof_id, clause, "subproof", <<>>, discharge)
        subproof == next_index(e2)
        e3 == add_new_command(e2, ElabSubproof((added \o updated) \o <<end_step>>))
        not_not_clause(j) ==
            <<Not(negated[j]),
              remove_negation(remove_negation(negated[j]).term).term>>
        not_not_steps == [j \in 1..Len(negated) |-> <<0, Len(e3.accumulator) + j - 1>>]
        e4 == [e3 EXCEPT
                 !.accumulator = @ \o [j \in 1..Len(negated) |->
                    ElabStep(get_new_id(e3, root_id, j), not_not_clause(j),
                             "not_not", <<>>, <<>>)],
                 !.ids = @ + Len(negated)]
        false_step == next_index(e4)
        e5 == [add_new_command(e4,
                  ElabStep(get_new_id(e4, root_id, 1), <<Not(bool_false)>>,
                           "false", <<>>, <<>>))
               EXCEPT !.ids = @ + 1]
        resolution_clause ==
            [j \in 1..Len(negated) |->
                remove_negation(remove_negation(negated[j]).term).term]
        resolution_step == next_index(e5)
        e6 == [add_new_command(e5,
                  ElabStep(get_new_id(e5, root_id, 1), resolution_clause,
                           "resolution",
                           resolution_premises(subproof, not_not_steps, false_step),
                           <<>>))
               EXCEPT !.ids = @ + 1]
    IN  [push_elaborated_step(e6,
            ElabStep(get_new_id(e6, root_id, 1), clause_in, "hole",
                     <<resolution_step>>, <<>>))
         EXCEPT !.ids = @ + 1]

(***************************************************************************)
(* The lia_generic bridge: get_cvc5_proof and lia_generic                  *)
(***************************************************************************)
\* what wait_with_output returns: the exit status, stderr (whether it is
\* valid UTF-8, whether it holds "cvc5 interrupted by timeout."), the first
\* line of stdout (whether it is valid UTF-8, its text before the trailing
\* whitespace, the number of trailing whitespace characters) and the proof
\* commands on the lines after it
Output(success, stderr_utf8, stderr_marker, line, commands) ==
    [success |-> success,
     stderr |-> [utf8 |-> stderr_utf8, marker |-> stderr_marker],
     first_line |-> line,
     commands |-> commands]
Line(utf8, body, trailing) == [utf8 |-> utf8, body |-> body, trailing |-> trailing]
NoOutput == Output(FALSE, TRUE, FALSE, Line(TRUE, "", 0), <<>>)

\* str::trim_end
trim_end(line) == [line EXCEPT !.trailing = 0]

\* every non-zero exit is a Cvc5NonZeroExitCode
exit_status_error_no_timeout(output) ==
    IF output.success THEN "none" ELSE "Cvc5NonZeroExitCode"

\* the test of output.status and of stderr
exit_status_error(output) ==
    IF output.success THEN "none"
    ELSE IF output.stderr.utf8 /\ output.stderr.marker THEN "Cvc5Timeout"
    ELSE "Cvc5NonZeroExitCode"

\* read_line and the comparison of the first line with "unsat"
first_line_error(output) ==
    IF ~output.first_line.utf8 THEN "Cvc5GaveInvalidOutput"
    ELSE IF trim_end(output.first_line) # Line(TRUE, "unsat", 0)
    THEN "Cvc5OutputNotUnsat"
    ELSE "none"

\* one stage of get_cvc5_proof: it is logged, and its error, if any, ends
\* the function
Stage(name, err, next) ==
    /\ rule = "lia_generic" /\ pc = name
    /\ stages' = Append(stages, name)
    /\ IF err = "none"
       THEN pc' = next /\ UNCHANGED error
       ELSE pc' = "failed" /\ error' = err

Cvc5Spawn ==
    /\ \E ok \in BOOLEAN :
          Stage("spawn", IF ok THEN "none" ELSE "FailedSpawnCvc5", "write")
    /\ UNCHANGED <<rule, conclusion, args, premises, idx, acc_op, acc, result, lc,
                   nops, encountered, proof, invoked, cvc5, elaborator,
                   warnings, ops>>

Cvc5WriteStdin ==
    /\ \E ok \in BOOLEAN :
          Stage("write", IF ok THEN "none" ELSE "FailedWriteToCvc5Stdin", "wait")
    /\ UNCHANGED <<rule, conclusion, args, premises, idx, acc_op, acc, result, lc,
                   nops, encountered, proof, invoked, cvc5, elaborator,
                   warnings, ops>>

\* parse_and_check_cvc5_proof(...).map_err(InnerProofError)
parse_and_check_error(ok) ==
    IF ok THEN "none" ELSE "InnerProofError"

\* the elaborator is left as it is
lia_generic_err_silent(elab, clause) == elab

\* the Err arm of lia_generic, after the warning
lia_generic_err(elab, clause) ==
    IF elab.present THEN unchanged(elab, clause) ELSE elab

\* the Ok path of lia_generic
lia_generic_ok(elab, commands, clause, root_id) ==
    IF elab.present THEN insert_cvc5_proof(elab, commands, clause, root_id)
    ELSE elab

\* the solver's proofs for a conclusion: an Assume of the negation of some of
\* the conclusion's terms, in their order, then a step that closes the proof
SolverProof(clause, positions) ==
    [j \in 1..Len(positions) |->
        ElabAssume(<<"a", j>>, Not(clause[positions[j]]))]
    \o <<ElabStep(<<"s">>, <<>>, "la_generic",
                  [j \in 1..Len(positions) |-> <<0, j - 1>>], <<>>)>>

SolverProofs(clause) ==
    {SolverProof(clause, positions) : positions \in EarlierIndices(Len(clause) + 1)}

StderrTexts == BOOLEAN \X BOOLEAN

FirstLines ==
    {Line(TRUE, "unsat", 1), Line(TRUE, "unsat", 2), Line(TRUE, "sat", 1),
     Line(TRUE, "", 0), Line(FALSE, "", 0)}

Outputs(clause) ==
    {Output(success, e[1], e[2], line, commands) :
        success \in BOOLEAN, e \in StderrTexts, line \in FirstLines,
        commands \in SolverProofs(clause)}

Cvc5Wait ==
    /\ \E ok \in BOOLEAN :
          /\ Stage("wait", IF ok THEN "none" ELSE "FailedWaitForCvc5", "status")
          /\ IF ok
             THEN \E output \in Outputs(conclusion) : cvc5' = output
             ELSE UNCHANGED cvc5
    /\ UNCHANGED <<rule, conclusion, args, premises, idx, acc_op, acc, result, lc,
                   nops, encountered, proof, invoked, elaborator, warnings, ops>>

Cvc5ExitStatus ==
    /\ Stage("status", exit_status_error(cvc5), "first_line")
    /\ UNCHANGED <<rule, conclusion, args, premises, idx, acc_op, acc, result, lc,
                   nops, encountered, proof, invoked, cvc5, elaborator,
                   warnings, ops>>

Cvc5FirstLine ==
    /\ Stage("first_line", first_line_error(cvc5), "parse_and_check")
    /\ UNCHANGED <<rule, conclusion, args, premises, idx, acc_op, acc, result, lc,
                   nops, encountered, proof, invoked, cvc5, elaborator,
                   warnings, ops>>

\* the parser and the inner engine answer for the proof the solver printed
Cvc5ParseAndCheck ==
    /\ \E ok \in BOOLEAN :
          Stage("parse_and_check", parse_and_check_error(ok), "proof")
    /\ UNCHANGED <<rule, conclusion, args, premises, idx, acc_op, acc, result, lc,
                   nops, encountered, proof, invoked, cvc5, elaborator,
                   warnings, ops>>

\* lia_generic, get_cvc5_proof returned Err(e)
LiaGenericErr ==
    /\ rule = "lia_generic" /\ pc = "failed"
    /\ warnings' = warnings + 1
    /\ elaborator' = lia_generic_err(elaborator, conclusion)
    /\ result' = "true"
    /\ pc' = "done"
    /\ UNCHANGED <<rule, conclusion, args, premises, idx, acc_op, acc, lc, nops,
                   encountered, proof, invoked, cvc5, stages, error, ops>>

\* lia_generic, get_cvc5_proof returned Ok(commands)
LiaGenericOk ==
    /\ rule = "lia_generic" /\ pc = "proof"
    /\ elaborator' = lia_generic_ok(elaborator, cvc5.commands, conclusion, "t1")
    /\ result' = "false"
    /\ pc' = "done"
    /\ UNCHANGED <<rule, conclusion, args, premises, idx, acc_op, acc, lc, nops,
                   encountered, proof, invoked, cvc5, stages, error, warnings,
                   ops>>

\* the elaborators a lia_generic step can meet: none, a new one, one that
\* already holds a command
Elaborators ==
    {NoElaborator, NewElaborator,
     [add_new_command(NewElaborator,
                      ElabStep(<<"t0">>, <<var_q>>, "hole", <<>>, <<>>))
      EXCEPT !.ids = 1]}

InitBridge ==
    /\ rule = "lia_generic"
    /\ conclusion \in Clauses
    /\ elaborator \in Elaborators
    /\ args = <<>>
    /\ pc = "spawn" /\ idx = 1 /\ acc_op = "Equals" /\ acc = new
    /\ result = "none"
    /\ Idle
    /\ proof = <<>> /\ invoked = <<>>
    /\ cvc5 = NoOutput /\ stages = <<>> /\ error = "none"
    /\ warnings = 0
    /\ ops = <<>>

NextBridge ==
    \/ Cvc5Spawn \/ Cvc5WriteStdin \/ Cvc5Wait \/ Cvc5ExitStatus
    \/ Cvc5FirstLine \/ Cvc5ParseAndCheck \/ LiaGenericErr \/ LiaGenericOk

SpecBridge == InitBridge /\ [][NextBridge]_vars

(***************************************************************************)
(* Properties of the lia_generic bridge                                    *)
(***************************************************************************)
BridgeDone == rule = "lia_generic" /\ pc = "done"

ErrorKinds ==
    {"FailedSpawnCvc5", "FailedWriteToCvc5Stdin", "FailedWaitForCvc5",
     "Cvc5Timeout", "Cvc5NonZeroExitCode", "Cvc5OutputNotUnsat",
     "Cvc5GaveInvalidOutput", "InnerProofError"}

StageOrder ==
    <<"spawn", "write", "wait", "status", "first_line", "parse_and_check">>

\* C15: whatever error the bridge produced, lia_generic returns (with true,
\* the step is let through) after one warning, the elaborator has no new
\* command and no elaborated step, and an elaborator that is present has
\* recorded the conclusion as unchanged exactly once; commands are spliced
\* only after every stage succeeded, the inner check included.
C15_ErrorsAccepted ==
    BridgeDone =>
        /\ error # "none" =>
              /\ error \in ErrorKinds
              /\ result = "true" /\ warnings = 1
              /\ \E e0 \in Elaborators :
                    elaborator = (IF e0.present
                                  THEN [e0 EXCEPT !.unchanged = <<conclusion>>]
                                  ELSE e0)
        /\ (elaborator \notin Elaborators /\ elaborator.unchanged = <<>>) =>
              /\ error = "none" /\ warnings = 0
              /\ stages = StageOrder
              /\ cvc5.success /\ trim_end(cvc5.first_line) = Line(TRUE, "unsat", 0)

C15_Witness ==
    /\ BridgeDone /\ error = "InnerProofError"
    /\ elaborator.present /\ elaborator.unchanged = <<conclusion>>
    /\ Len(elaborator.accumulator) = 1

C15_WitnessSpliced ==
    /\ BridgeDone /\ error = "none"
    /\ elaborator.present /\ Len(elaborator.elaborated) = 1

\* the stage that reports each error
StageOf(e) ==
    CASE e = "FailedSpawnCvc5" -> "spawn"
      [] e = "FailedWriteToCvc5Stdin" -> "write"
      [] e = "FailedWaitForCvc5" -> "wait"
      [] e \in {"Cvc5Timeout", "Cvc5NonZeroExitCode"} -> "status"
      [] e \in {"Cvc5GaveInvalidOutput", "Cvc5OutputNotUnsat"} -> "first_line"
      [] e = "InnerProofError" -> "parse_and_check"

StagesInOrder ==
    /\ Len(stages) <= Len(StageOrder)
    /\ stages = SubSeq(StageOrder, 1, Len(stages))
    /\ error # "none" =>
          /\ error \in ErrorKinds
          /\ stages # <<>> /\ stages[Len(stages)] = StageOf(error)
    /\ (error = "Cvc5OutputNotUnsat") =>
          /\ cvc5.success /\ cvc5.first_line.utf8
          /\ cvc5.first_line.body # "unsat"
    /\ (Len(stages) = 6) =>
          /\ cvc5.success
          /\ trim_end(cvc5.first_line) = Line(TRUE, "unsat", 0)
          /\ error \in {"none", "InnerProofError"}

NonZeroExit ==
    rule = "lia_generic" /\ Len(stages) >= 4 /\ ~cvc5.success

\* C16 as stated: the stages run in order and the first failing one reports;
\* a non-zero exit is a Cvc5Timeout exactly when stderr holds the marker.
C16_Stated ==
    (rule = "lia_generic") =>
        /\ StagesInOrder
        /\ NonZeroExit =>
              /\ error = "Cvc5Timeout" <=> cvc5.stderr.marker
              /\ error = "Cvc5NonZeroExitCode" <=> ~cvc5.stderr.marker

\* C16: the stages run in the order spawn, write, wait, status, first line,
\* parse-and-check and the first failing one reports its error; a non-zero
\* exit is a Cvc5Timeout exactly when stderr is valid UTF-8 and holds the
\* marker, and a Cvc5NonZeroExitCode otherwise; Cvc5OutputNotUnsat needs a
\* successful exit and a first line other than unsat; the proof is parsed
\* and checked only after all that, its failure being an InnerProofError.
C16_StageOrder ==
    (rule = "lia_generic") =>
        /\ StagesInOrder
        /\ NonZeroExit =>
              /\ error = "Cvc5Timeout" <=>
                    (cvc5.stderr.utf8 /\ cvc5.stderr.marker)
              /\ error = "Cvc5NonZeroExitCode" <=>
                    ~(cvc5.stderr.utf8 /\ cvc5.stderr.marker)

C16_Witness ==
    /\ BridgeDone /\ error = "Cvc5Timeout"
    /\ stages = SubSeq(StageOrder, 1, 4)

C16_WitnessNotUtf8 ==
    /\ BridgeDone /\ error = "Cvc5NonZeroExitCode"
    /\ cvc5.stderr.marker /\ ~cvc5.stderr.utf8

\* the bridge succeeded and spliced into an elaborator
Spliced == BridgeDone /\ error = "none" /\ elaborator.present

\* the terms whose negation the solver's proof assumes, in its order
AssumedByProof ==
    LET positions == assume_positions(cvc5.commands)
    IN  [j \in 1..Len(positions) |->
            remove_negation(cvc5.commands[positions[j]].term).term]

\* the accumulator ends with the closed sub-proof, one not_not step for each
\* assumption of the solver's proof, the `false` step with (not false) and
\* a resolution step over all of them with the given clause; the one
\* elaborated step has the conclusion as clause and the resolution step as
\* its only premise
SplicedWith(resolution_clause) ==
    LET spliced == elaborator.accumulator
        n == Len(spliced)
        k == Len(AssumedByProof)
        base == n - (k + 3)
    IN  /\ base \in {0, 1}
        /\ base = 1 => spliced[1].rule = "hole"
        /\ spliced[base + 1].kind = "Subproof"
        /\ LET closed == spliced[base + 1].commands
           IN  /\ closed # <<>>
               /\ closed[Len(closed)].rule = "subproof"
               /\ Len(closed[Len(closed)].clause) = k + 1
        /\ \A j \in 1..k :
              /\ spliced[base + 1 + j].kind = "Step"
              /\ spliced[base + 1 + j].rule = "not_not"
              /\ spliced[base + 1 + j].clause =
                    <<Not(Not(Not(AssumedByProof[j]))), AssumedByProof[j]>>
        /\ spliced[n - 1].rule = "false"
        /\ spliced[n - 1].clause = <<Not(bool_false)>>
        /\ spliced[n].rule = "resolution"
        /\ spliced[n].premises = [j \in 1..(k + 2) |-> <<0, base + j - 1>>]
        /\ spliced[n].clause = resolution_clause
        /\ Len(elaborator.elaborated) = 1
        /\ elaborator.elaborated[1].clause = conclusion
        /\ elaborator.elaborated[1].premises = <<<<0, n - 1>>>>

\* C17 as stated: the resolution step spliced last has the original
\* conclusion of the lia_generic step as its clause.
C17_Stated == Spliced => SplicedWith(conclusion)

\* C17: the commands spliced are, in order, the closed sub-proof, one not_not
\* step per assumption of the solver's proof, the `false` step with
\* (not false) and a resolution step over all of them whose clause lists the
\* terms whose negations the solver's proof assumes; the elaborated step
\* pushed last has the original conclusion and that resolution step as its
\* only premise.
C17_SplicedCommands == Spliced => SplicedWith(AssumedByProof)

\* the solver's proof assumes both terms of the conclusion
C17_Witness ==
    /\ Spliced /\ Len(conclusion) = 2 /\ AssumedByProof = conclusion
    /\ Len(elaborator.accumulator) = 6

\* the solver's proof assumes one of the two terms of the conclusion
C17_WitnessSubset ==
    /\ Spliced /\ Len(conclusion) = 2 /\ Len(AssumedByProof) = 1

(***************************************************************************)
(* from_term of a sum and add                                              *)
(***************************************************************************)
\* from_term of (+ u v), and add of from_term(u) and from_term(v)
FromTermSum ==
    /\ rule = "from_term" /\ pc = "start"
    /\ lc' = from_term(Op("Add", <<conclusion[1], conclusion[2]>>))
    /\ acc' = add(from_term(conclusion[1]), from_term(conclusion[2]))
    /\ pc' = "done"
    /\ UNCHANGED <<other_vars, rule, conclusion, args, premises, idx, acc_op,
                   result, nops, encountered>>

\* the summands u and v
Summands ==
    {var_n, var_m, Integer(1), Real(1, 2), Minus(var_n),
     Op("Add", <<var_n, var_m>>), Op("Sub", <<var_m, var_m>>),
     Op("Sub", <<var_n, Integer(1)>>),
     Op("Mult", <<Integer(2), var_n>>), Op("Mult", <<var_n, Real(1, 2)>>),
     Op("Mult", <<var_m, Integer(0)>>), Op("Mult", <<var_n, var_m>>)}

InitFromTerm ==
    /\ OtherIdle
    /\ rule = "from_term"
    /\ conclusion \in [1..2 -> Summands]
    /\ args = <<>> /\ premises = <<>>
    /\ pc = "start" /\ idx = 1 /\ acc_op = "Equals" /\ acc = new
    /\ result = "none" /\ lc = new /\ nops = 0 /\ encountered = EmptyMap

NextFromTerm == FromTermSum

SpecFromTerm == InitFromTerm /\ [][NextFromTerm]_vars

\* two raw rationals have the same value
SameValue(a, b) == numer(a) * denom(b) = numer(b) * denom(a)

\* the same key set, the same coefficient for every key, the same constant
SameLinearComb(a, b) ==
    /\ DOMAIN a.map = DOMAIN b.map
    /\ \A k \in DOMAIN a.map : SameValue(a.map[k], b.map[k])
    /\ SameValue(a.constant, b.constant)

\* C18: from_term of the sum (+ u v) has the same key set, the same
\* coefficient for every key and the same constant, by value, as
\* add(from_term(u), from_term(v)).
C18_FromTermAdditive ==
    (rule = "from_term" /\ pc = "done") => SameLinearComb(lc, acc)

(***************************************************************************)
(* The case table of strengthen                                            *)
(***************************************************************************)
\* the value of a raw rational is an integer, and that integer
ValueIsInteger(r) == numer(r) % denom(r) = 0
IntegerValue(r) == numer(r) \div denom(r)

\* the greatest integer not above the value of r
FloorValue(r) == numer(r) \div denom(r)

\* is_integer of the case table: a = 0, or a = 1 and the constant is an
\* integer, or the constant times a is an integer
TableIsInteger(d, a) ==
    IF numer(a) = 0 THEN TRUE
    ELSE IF numer(a) = denom(a) THEN ValueIsInteger(d.constant)
    ELSE ValueIsInteger(raw_mul(d.constant, a))

RECURSIVE GcdOfValues(_, _, _)
GcdOfValues(m, keys, res) ==
    IF keys = {} THEN res
    ELSE LET k == CHOOSE x \in keys : TRUE
         IN  GcdOfValues(m, keys \ {k}, gcd(Abs(IntegerValue(m[k])), res))

\* the gcd of the coefficients and the constant, 1 when one of them is not
\* an integer or when all are zero
TableGcd(d) ==
    IF ~ValueIsInteger(d.constant) \/ \E k \in DOMAIN d.map : ~ValueIsInteger(d.map[k])
    THEN 1
    ELSE LET g == GcdOfValues(d.map, DOMAIN d.map, Abs(IntegerValue(d.constant)))
         IN  IF g > 1 THEN g ELSE 1

\* strengthen(op, d, a) is the row of the case table for op, d and a
FollowsTable(op, d, a) ==
    LET s == strengthen(op, d, a) IN
    /\ s.d.map = d.map
    /\ (op = "GreaterEq" /\ TableIsInteger(d, a)) => (s.op = op /\ s.d = d)
    /\ (op = "GreaterThan" /\ TableIsInteger(d, a)) =>
          /\ s.op = "GreaterEq"
          /\ SameValue(s.d.constant, <<FloorValue(d.constant) + TableGcd(d), 1>>)
    /\ (op \in {"GreaterThan", "GreaterEq"} /\ ~TableIsInteger(d, a)) =>
          /\ s.op = "GreaterEq"
          /\ SameValue(s.d.constant, <<FloorValue(d.constant) + 1, 1>>)
    /\ (op \notin {"GreaterThan", "GreaterEq"}) => (s.op = op /\ s.d = d)

\* C19: for every disequality la_generic strengthens, strengthen follows the
\* case table, with integrality taken of the value of the constant (a = 1)
\* or of the constant times a, and never modifies the coefficient map.
C19_CaseTable ==
    (rule = "la_generic" /\ pc \in {"fold", "done"}) =>
        \A i \in 1..(idx - 1) :
            LET f == move_and_flip(negate_disequality(conclusion[i]))
            IN  FollowsTable(f.op, f.d, arg_value(i))

(***************************************************************************)
(* The operator fold of la_generic                                         *)
(***************************************************************************)
\* one step of try_fold: the operator of the next summand is accumulated
AccumulateOp ==
    /\ rule = "accumulate" /\ idx <= Len(ops)
    /\ acc_op' = accumulate_op(acc_op, ops[idx])
    /\ idx' = idx + 1
    /\ UNCHANGED <<rule, conclusion, args, premises, pc, acc, result, lc, nops,
                   encountered, proof, invoked, cvc5, stages, error, elaborator,
                   warnings, ops>>

\* the fold has consumed every summand
AccumulateDone ==
    /\ rule = "accumulate" /\ pc = "start" /\ idx > Len(ops)
    /\ pc' = "done"
    /\ UNCHANGED <<rule, conclusion, args, premises, idx, acc_op, acc, result, lc,
                   nops, encountered, proof, invoked, cvc5, stages, error,
                   elaborator, warnings, ops>>

MaxSummands == 4

SummandOps == {"GreaterEq", "GreaterThan", "Equals"}

InitAccumulate ==
    /\ rule = "accumulate"
    /\ ops \in SeqsUpTo(SummandOps, MaxSummands)
    /\ conclusion = <<>> /\ args = <<>>
    /\ pc = "start" /\ idx = 1 /\ acc_op = "Equals" /\ acc = new
    /\ result = "none"
    /\ Idle
    /\ proof = <<>> /\ invoked = <<>>
    /\ cvc5 = <<>> /\ stages = <<>> /\ error = "none"
    /\ elaborator = <<>> /\ warnings = 0

NextAccumulate == AccumulateOp \/ AccumulateDone

SpecAccumulate == InitAccumulate /\ [][NextAccumulate]_vars

\* the operators of the summands accumulated so far
SeenOps == {ops[j] : j \in 1..(idx - 1)}

\* C20: the accumulated operator depends only on which operators occurred:
\* >= if a summand had >=, otherwise > if a summand had >, otherwise =.
C20_OperatorAccumulation ==
    (rule = "accumulate") =>
        acc_op = (IF "GreaterEq" \in SeenOps THEN "GreaterEq"
                  ELSE IF "GreaterThan" \in SeenOps THEN "GreaterThan"
                  ELSE "Equals")

\* once the accumulator is >= no later summand changes it
C20_GreaterEqStays ==
    [][(rule = "accumulate" /\ acc_op = "GreaterEq") => acc_op' = "GreaterEq"]_vars

\* a > and an = come after the accumulator became >=
C20_Witness ==
    /\ rule = "accumulate" /\ pc = "done" /\ acc_op = "GreaterEq"
    /\ Len(ops) = 4
    /\ ops[1] = "GreaterThan" /\ ops[2] = "GreaterEq"
    /\ ops[3] = "GreaterThan" /\ ops[4] = "Equals"

\* only > and = occur
C20_WitnessStrict ==
    /\ rule = "accumulate" /\ pc = "done" /\ acc_op = "GreaterThan"
    /\ ops = <<"Equals", "GreaterThan", "Equals">>

(***************************************************************************)
(* negate_disequality on its own                                           *)
(***************************************************************************)
\* negate_disequality(term): the operator, the two sides and the error
NegateDisequality ==
    /\ rule = "negate_disequality" /\ pc = "start"
    /\ LET r == negate_disequality(conclusion[1])
       IN  /\ error' = (IF r.err = "" THEN "none" ELSE r.err)
           /\ acc_op' = r.op
           /\ lc' = r.s1
           /\ acc' = r.s2
    /\ pc' = "done"
    /\ UNCHANGED <<rule, conclusion, args, premises, idx, result, nops,
                   encountered, proof, invoked, cvc5, stages, elaborator,
                   warnings, ops>>

NegateSides == {var_n, Integer(1), Op("Add", <<var_n, var_m>>)}

\* relations over two sides, bare and negated
NegateRelations ==
    UNION {{Op(r, <<a, b>>), Not(Op(r, <<a, b>>))} :
              r \in RelOps, a \in NegateSides, b \in NegateSides}

\* relations with one or three arguments, and terms that are no relation
NegateOthers ==
    {Op("LessThan", <<var_n>>), Not(Op("GreaterEq", <<var_n>>)),
     Op("LessEq", <<var_n, var_m, Integer(1)>>),
     Not(Op("Equals", <<var_n, var_m, Integer(1)>>)),
     Op("Equals", <<var_n, var_m, Integer(1)>>),
     var_n, Not(var_n), Not(Not(Op("LessThan", <<var_n, Integer(1)>>))),
     Op("Add", <<var_n, var_m>>), Not(Op("Add", <<var_n, var_m>>)),
     Op("Ite", <<Op("Equals", <<var_n, var_m>>), Var("false"), Var("true")>>)}

InitNegate ==
    /\ rule = "negate_disequality"
    /\ \E t \in NegateRelations \cup NegateOthers : conclusion = <<t>>
    /\ args = <<>>
    /\ pc = "start" /\ idx = 1 /\ acc_op = "Equals" /\ acc = new
    /\ result = "none"
    /\ Idle
    /\ OtherIdle

NextNegate == NegateDisequality

SpecNegate == InitNegate /\ [][NextNegate]_vars

\* the relation that holds exactly when r does not
Complement(r) ==
    CASE r = "LessThan" -> "GreaterEq"
      [] r = "GreaterEq" -> "LessThan"
      [] r = "GreaterThan" -> "LessEq"
      [] r = "LessEq" -> "GreaterThan"

\* the value of a linear combination with integer coefficients
RECURSIVE EvalKeys(_, _, _)
EvalKeys(m, keys, env) ==
    IF keys = {} THEN 0
    ELSE LET k == CHOOSE x \in keys : TRUE
         IN  IntegerValue(m[k]) * EvalInt(k, env) + EvalKeys(m, keys \ {k}, env)
EvalComb(c, env) == IntegerValue(c.constant) + EvalKeys(c.map, DOMAIN c.map, env)

\* negate_disequality returned (op, from_term(a), from_term(b)), and that
\* relation holds exactly under the assignments that make phi false
NegationOf(phi, op, a, b) ==
    /\ error = "none" /\ acc_op = op
    /\ lc = from_term(a) /\ acc = from_term(b)
    /\ \A env \in Assignments :
          RelHolds(acc_op, EvalComb(lc, env), EvalComb(acc, env)) <=> ~Truth(phi, env)

\* C21: negate_disequality gives (R, a, b) for (not (R a b)) with R one of
\* <, <=, >, >=, = and the complementary relation over the same sides for a
\* bare (R a b) with R one of <, <=, >, >=, both denoting the negation of the
\* term; such a relation with other than two arguments fails with
\* TooManyArgsInDisequality and every other term with InvalidDisequalityOp.
C21_Negation ==
    (rule = "negate_disequality" /\ pc = "done") =>
        LET phi == conclusion[1]
            negated == IsOp(phi, "Not") /\ Len(phi.args) = 1
                          /\ phi.args[1].kind = "Op" /\ phi.args[1].name \in RelOps
            bare == phi.kind = "Op" /\ phi.name \in RelOps \ {"Equals"}
        IN  IF negated
            THEN IF Len(phi.args[1].args) = 2
                 THEN NegationOf(phi, phi.args[1].name,
                                 phi.args[1].args[1], phi.args[1].args[2])
                 ELSE error = "TooManyArgsInDisequality"
            ELSE IF bare
            THEN IF Len(phi.args) = 2
                 THEN NegationOf(phi, Complement(phi.name), phi.args[1], phi.args[2])
                 ELSE error = "TooManyArgsInDisequality"
            ELSE error = "InvalidDisequalityOp"

\* a bare relation is answered with its complement
C21_Witness ==
    /\ rule = "negate_disequality" /\ pc = "done" /\ error = "none"
    /\ conclusion = <<Op("LessThan", <<var_n, Integer(1)>>)>>
    /\ acc_op = "GreaterEq"

\* a negated equality is answered with the equality
C21_WitnessEquals ==
    /\ rule = "negate_disequality" /\ pc = "done" /\ error = "none"
    /\ conclusion = <<Not(Op("Equals", <<var_n, Integer(1)>>))>>
    /\ acc_op = "Equals"

C21_WitnessTooManyArgs ==
    /\ rule = "negate_disequality" /\ pc = "done"
    /\ error = "TooManyArgsInDisequality"

(***************************************************************************)
(* insert_cvc5_proof on its own: solver proofs with a nested sub-proof     *)
(***************************************************************************)
\* insert_cvc5_proof(pool, elaborator, commands, conclusion, root_id)
InsertCvc5Proof ==
    /\ rule = "insert_cvc5_proof" /\ pc = "start"
    /\ elaborator' = insert_cvc5_proof(elaborator, cvc5.commands, conclusion, "t1")
    /\ pc' = "done"
    /\ UNCHANGED <<rule, conclusion, args, premises, idx, acc_op, acc, result,
                   lc, nops, encountered, proof, invoked, cvc5, stages, error,
                   warnings, ops>>

\* the premises of a step inside the nested sub-proof: its own assumption
\* (depth 1) and at most one of the k assumptions of the enclosing proof
\* (depth 0)
NestedPremises(k) ==
    {<< <<1, 0>> >>} \cup {<< <<1, 0>>, <<0, j - 1>> >> : j \in 1..k}

\* a solver proof whose commands are the assumptions, a sub-proof (an
\* assumption, a step, the closing step) and a step that uses them all
NestedSolverProof(clause, positions, refs) ==
    LET k == Len(positions)
    IN  ([j \in 1..k |-> ElabAssume(<<"a", j>>, Not(clause[positions[j]]))]
         \o <<ElabSubproof(<<ElabAssume(<<"h">>, var_q),
                             ElabStep(<<"n">>, <<var_p>>, "resolution", refs, <<>>),
                             ElabStep(<<"c">>, <<Not(var_q), var_p>>, "subproof",
                                      <<>>, << <<1, 0>> >>)>>)>>)
         \o <<ElabStep(<<"s">>, <<>>, "la_generic",
                       [j \in 1..(k + 1) |-> <<0, j - 1>>], <<>>)>>

SpliceProofs(clause) ==
    SolverProofs(clause)
    \cup UNION {{NestedSolverProof(clause, positions, refs) :
                    refs \in NestedPremises(Len(positions))} :
                 positions \in EarlierIndices(Len(clause) + 1)}

InitSplice ==
    /\ rule = "insert_cvc5_proof"
    /\ conclusion \in Clauses
    /\ elaborator \in Elaborators \ {NoElaborator}
    /\ \E commands \in SpliceProofs(conclusion) :
          cvc5 = Output(TRUE, TRUE, FALSE, Line(TRUE, "unsat", 1), commands)
    /\ args = <<>>
    /\ pc = "start" /\ idx = 1 /\ acc_op = "Equals" /\ acc = new
    /\ result = "none"
    /\ Idle
    /\ proof = <<>> /\ invoked = <<>>
    /\ stages = <<>> /\ error = "none"
    /\ warnings = 0
    /\ ops = <<>>

NextSplice == InsertCvc5Proof

SpecSplice == InitSplice /\ [][NextSplice]_vars

\* the command a (depth, index) reference designates: the index-th command
\* of the depth-th open command list, the outermost list being depth 0
NoCommand ==
    [kind |-> "None", id |-> <<>>, term |-> bool_false, clause |-> <<>>,
     rule |-> "", premises |-> <<>>, discharge |-> <<>>, commands |-> <<>>]
get_premise(stack, ref) ==
    IF /\ ref[1] + 1 \in 1..Len(stack)
       /\ ref[2] + 1 \in 1..Len(stack[ref[1] + 1])
    THEN stack[ref[1] + 1][ref[2] + 1]
    ELSE NoCommand

\* the sub-proof insert_cvc5_proof closed, its commands and its closing step
SplicedSubproof ==
    LET k == CHOOSE k \in 1..Len(elaborator.accumulator) :
                 elaborator.accumulator[k].kind = "Subproof"
    IN  elaborator.accumulator[k]
SplicedClosing == SplicedSubproof.commands[Len(SplicedSubproof.commands)]
NumAdded == Len(SplicedSubproof.commands) - Len(cvc5.commands) - 1

\* the id a command is referred to by: a sub-proof goes by its closing step
CommandId(c) ==
    IF c.kind = "Subproof" THEN c.commands[Len(c.commands)].id ELSE c.id

\* the spliced command is the solver's command, renamed under the sub-proof
SameCommand(before, after) ==
    /\ before.kind # "None"
    /\ after.kind = before.kind
    /\ CommandId(after) = SplicedClosing.id \o CommandId(before)

\* every premise of every step of the innermost list of `before`, nested
\* sub-proofs included, designates after splicing what it designated before;
\* the innermost list of `after` holds the same commands behind `offset` others
RECURSIVE PremisesKept(_, _, _)
PremisesKept(before, after, offset) ==
    LET b == before[Len(before)]
        a == after[Len(after)]
    IN  \A i \in 1..Len(b) :
            IF b[i].kind = "Step"
            THEN /\ Len(a[offset + i].premises) = Len(b[i].premises)
                 /\ \A j \in 1..Len(b[i].premises) :
                       SameCommand(get_premise(before, b[i].premises[j]),
                                   get_premise(after, a[offset + i].premises[j]))
            ELSE IF b[i].kind = "Subproof"
            THEN PremisesKept(Append(before, b[i].commands),
                              Append(after, a[offset + i].commands), 0)
            ELSE TRUE

SpliceDone == rule = "insert_cvc5_proof" /\ pc = "done"

\* C22: after update_premises every premise reference of every rewritten
\* step, steps inside nested sub-proofs included, designates the command it
\* designated in the solver's proof before splicing.
C22_PremisesKept ==
    SpliceDone =>
        PremisesKept(<<cvc5.commands>>,
                     <<elaborator.accumulator, SplicedSubproof.commands>>,
                     NumAdded)

\* C23: every discharge reference of the closing subproof step designates an
\* Assume of the closed sub-proof, the one whose negation stands at the same
\* position of the closing clause, whatever the number of synthetic assumes,
\* and the closing clause ends with false.
C23_DischargeDesignatesAssume ==
    SpliceDone =>
        LET closing == SplicedClosing
            scopes == <<elaborator.accumulator, SplicedSubproof.commands>>
        IN  /\ closing.rule = "subproof"
            /\ Len(closing.clause) = Len(closing.discharge) + 1
            /\ closing.clause[Len(closing.clause)] = bool_false
            /\ \A j \in 1..Len(closing.discharge) :
                  LET d == get_premise(scopes, closing.discharge[j])
                  IN  /\ d.kind = "Assume"
                      /\ closing.clause[j] = Not(d.term)

====
